---- MODULE Spec2Model ----
(***************************************************************************)
(* Model of GrainTracker::Tracker (grain_tracker/tracker.h) and            *)
(* GrainTracker::Grain (grain_tracker/grain.h) of hpsint.                  *)
(*                                                                         *)
(* Geometry is kept on integers: a point is one integer coordinate, a      *)
(* segment is a sphere [c, r] with integer center and radius, and the      *)
(* buffer_distance_ratio is the rational BufferRatioNum / BufferRatioDen.  *)
(* distance_to_nearest_neighbor keeps the value of the code; where the     *)
(* code halves it (transfer_buffer) the model compares doubled lengths.    *)
(***************************************************************************)
EXTENDS Integers, Sequences, FiniteSets, TLC

(***************************************************************************)
(* Bounds of the model.                                                    *)
(***************************************************************************)
\* largest number of grains one detection returns
MaxGrains == 2
\* largest grain id the model lets track() mint
MaxGrainId == 2
\* segment centers are drawn from 0..MaxCoord
MaxCoord == 3
\* segment radii are drawn from 1..MaxRadius
MaxRadius == 2
\* largest number of order-parameter blocks of the solution vector
NumBlocks == 2
\* number of calls of the tracker in one run
MaxCalls == 2
\* largest max_order_parameters_num the constructor is given
MaxOrderParams == 2
\* number of grains and order parameters of the cycle of channel swaps
CycleLength == 3
\* number of grains of the fields on which grains of one order parameter
\* come close to each other next to a grain of another order parameter
CollisionGrains == 3
\* number of MPI processes that run perform_distributed_stitching
NumRanks == 3
\* a process has at most MaxLocal local particles
MaxLocal == 2
\* at most MaxEdges pairs of particles touch across a partition boundary
MaxEdges == 3
\* the values of a field container at a cell are drawn from 0..MaxValue
MaxValue == 1
\* largest number of nonzero entries of a container passed to remap()
MaxNonzero == 2

\* the field a run of detection, remap and tracking works on lives on a line
\* of NumCells cells of width CellWidth, the first centered at 0
NumCells == 5

CellWidth == 2

\* detect_grains runs on a strip of NumCoarse coarse cells of which at most
\* MaxRefined are refined once; the dof values of a cell are summarised by
\* their largest absolute value, drawn from 0..MaxFieldValue
NumCoarse == 2

MaxRefined == 1

MaxFieldValue == 2

\* lengths are counted in steps; a quarter of the side of a coarse cell has
\* Resolution steps
Resolution == 100

(***************************************************************************)
(* Program constants.                                                      *)
(***************************************************************************)
\* std::numeric_limits<unsigned int>::max(), numbers::invalid_unsigned_int:
\* the largest value of the id type (here of the 32-bit integers of the model)
InvalidId == 2147483647

\* const double invalid_particle_id = -1.0 (tracker.h 1703)
invalid_particle_id == -1

\* the default threshold_lower = 0.01 of the constructor (tracker.h 48), on
\* the scale of the field values of the model: the nonzero value 1 does not
\* exceed it
threshold_lower == 1

\* std::numeric_limits<double>::max(), on the integer scale of the model
MaxDouble == 1000000
\* buffer_distance_ratio = BufferRatioNum / BufferRatioDen
BufferRatioNum == 1
BufferRatioDen == 20

VARIABLES
  grains,                   \* std::map<unsigned int, Grain> grains
  old_grains,               \* std::map<unsigned int, Grain> old_grains
  active_order_parameters,  \* std::set<unsigned int>
  greedy_init,              \* constructor argument
  allow_new_grains,         \* constructor argument
  max_order_parameters_num, \* constructor argument
  n_order_params,           \* solution.n_blocks() - order_parameters_offset
  steps_left,               \* calls of the tracker the driver still makes
  last,                     \* the last call: kind, outcome, returned flags, locals
  pre,                      \* the tracker's maps at the entry of the last call
  retired,                  \* grain ids of grains that disappeared in an earlier call
  solution,                 \* the field container passed to remap(), by block and cell
  remapped,                 \* the remap() call: the container at entry and after
                            \* the disappeared grains, the log, the moves
  input,                    \* perform_distributed_stitching: input of every rank
  connectivity,             \* the input the ranks were called with
  in_flight,                \* messages sent and not yet processed
  pc,                       \* where every rank is in perform_distributed_stitching
  finished,                 \* the local finished of every rank
  entered,                  \* how often every rank has entered MPI::sum
  votes,                    \* the finished every rank gave to its last MPI::sum
  input_sent,               \* input of every rank when it last built data_to_send
  left_in,                  \* the round in which every rank left the loop
  input_valid,              \* the cliques every rank is the first member of
  result,                   \* the vector every rank returns
  triangulation,            \* detect_grains: the refined cells and the owner of
                            \* every active cell
  particle_ids,             \* the particle_ids vector of every rank, by cell
  detect_grains             \* the locals of detect_grains on every rank

\* the members of the tracker and of its driver
tracker == <<grains, old_grains, active_order_parameters, greedy_init,
             allow_new_grains, max_order_parameters_num, n_order_params,
             steps_left, last, pre, retired, solution, remapped>>

\* the locals of perform_distributed_stitching on all ranks
stitching == <<input, connectivity, in_flight, pc, finished, entered, votes,
               input_sent, left_in, input_valid, result>>

\* the mesh and the locals of detect_grains on all ranks
detection == <<triangulation, particle_ids, detect_grains>>

vars == <<tracker, stitching, detection>>

(***************************************************************************)
(* Helpers on sets, sequences and maps.                                    *)
(***************************************************************************)
Abs(x) == IF x < 0 THEN -x ELSE x

Min(a, b) == IF a < b THEN a ELSE b

Max(a, b) == IF a < b THEN b ELSE a

SetMax(S) == CHOOSE x \in S : \A y \in S : y <= x

SetMin(S) == CHOOSE x \in S : \A y \in S : x <= y

\* the elements of a set of integers in ascending order (iteration order of
\* std::set and of the keys of std::map)
RECURSIVE SortedSeq(_)
SortedSeq(S) ==
  IF S = {} THEN <<>>
  ELSE LET m == SetMin(S) IN <<m>> \o SortedSeq(S \ {m})

EmptyMap == <<>>

\* number of keys of a map smaller than k
Rank(S, k) == Cardinality({x \in S : x < k})

(***************************************************************************)
(* Segment and Grain.                                                      *)
(***************************************************************************)
\* Point::distance in one dimension
PointDistance(a, b) == Abs(a - b)

\* distance between two segments in their spherical representation
DistanceBetweenSpheres(s1, s2) == PointDistance(s1.c, s2.c) - s1.r - s2.r

\* Grain(grain_id, order_parameter_id): the old order parameter is the
\* current one, no segment, no neighbor
NewGrain(gid, op) ==
  [grain_id |-> gid, order_parameter_id |-> op, old_order_parameter_id |-> op,
   segments |-> <<>>, distance_to_nearest_neighbor |-> MaxDouble]

\* Grain::get_max_radius: max_radius is the maximum over add_segment calls
RECURSIVE MaxRadiusOf(_)
MaxRadiusOf(segs) ==
  IF segs = <<>> THEN 0 ELSE Max(Head(segs).r, MaxRadiusOf(Tail(segs)))

get_max_radius(g) == MaxRadiusOf(g.segments)

\* Grain::distance and Grain::distance_lower_bound: the minimum over all
\* pairs of segments, starting from numeric_limits<double>::max()
GrainDistance(g, h) ==
  LET D == {DistanceBetweenSpheres(g.segments[i], h.segments[j]) :
              i \in DOMAIN g.segments, j \in DOMAIN h.segments}
  IN IF D = {} THEN MaxDouble ELSE Min(SetMin(D), MaxDouble)

distance_lower_bound(g, h) == GrainDistance(g, h)

\* Grain::transfer_buffer, doubled: max(0, distance_to_nearest_neighbor / 2)
transfer_buffer2(g) == Max(0, g.distance_to_nearest_neighbor)

\* Grain::add_neighbor
add_neighbor(g, h) ==
  [g EXCEPT !.distance_to_nearest_neighbor =
     Min(g.distance_to_nearest_neighbor, distance_lower_bound(g, h))]

(***************************************************************************)
(* Tracker::track, lines 91-163: the matching loop.                        *)
(***************************************************************************)
\* MatchStep with a reach one unit short of the radius of the new segment
MatchStepShortReach(acc, new_segment, old_grain, old_segment) ==
  LET distance == PointDistance(new_segment.c, old_segment.c)
  IN IF distance + 1 < new_segment.r /\ distance < acc.min_distance
     THEN [min_distance |-> distance, new_grain_id |-> old_grain.grain_id]
     ELSE acc

\* MatchStep that keeps the first old segment within reach instead of the
\* closest one
MatchStepFirstFit(acc, new_segment, old_grain, old_segment) ==
  LET distance == PointDistance(new_segment.c, old_segment.c)
  IN IF distance < new_segment.r /\ acc.new_grain_id = InvalidId
     THEN [min_distance |-> distance, new_grain_id |-> old_grain.grain_id]
     ELSE acc

\* lines 110-118: one old segment compared with one new segment
MatchStep(acc, new_segment, old_grain, old_segment) ==
  LET distance == PointDistance(new_segment.c, old_segment.c)
  IN IF distance < new_segment.r /\ distance < acc.min_distance
     THEN [min_distance |-> distance, new_grain_id |-> old_grain.grain_id]
     ELSE acc

\* lines 108-119: the segments of one candidate old grain, in order
RECURSIVE MatchOldSegments(_, _, _, _)
MatchOldSegments(acc, new_segment, old_grain, j) ==
  IF j > Len(old_grain.segments) THEN acc
  ELSE MatchOldSegments(
         MatchStep(acc, new_segment, old_grain, old_grain.segments[j]),
         new_segment, old_grain, j + 1)

\* lines 104-120: the candidates, in ascending order of grain id
RECURSIVE MatchCandidates(_, _, _, _)
MatchCandidates(acc, new_segment, cands, old) ==
  IF cands = <<>> THEN acc
  ELSE MatchCandidates(
         MatchOldSegments(acc, new_segment, old[Head(cands)], 1),
         new_segment, Tail(cands), old)

\* lines 99-121: the segments of the new grain, in order
RECURSIVE MatchNewSegments(_, _, _, _)
MatchNewSegments(acc, segs, cands, old) ==
  IF segs = <<>> THEN acc
  ELSE MatchNewSegments(MatchCandidates(acc, Head(segs), cands, old),
                        Tail(segs), cands, old)

FindMatch(new_grain, grains_candidates, old) ==
  MatchNewSegments([min_distance |-> MaxDouble, new_grain_id |-> InvalidId],
                   new_grain.segments, SortedSeq(grains_candidates), old)

\* std::map::emplace followed by set_grain_id: an existing key is kept
Emplace(m, gid, g) ==
  IF gid \in DOMAIN m THEN m
  ELSE [k \in DOMAIN m \cup {gid} |->
          IF k = gid THEN [g EXCEPT !.grain_id = gid] ELSE m[k]]

\* TrackOne without grains_candidates.erase: a claimed old grain stays a
\* candidate
TrackOneNoErase(st, new_grain, old, allow) ==
  LET m   == FindMatch(new_grain, st.grains_candidates, old)
      nid == m.new_grain_id
  IN IF nid = InvalidId
     THEN IF allow
          THEN [st EXCEPT !.grains = Emplace(st.grains, st.grain_numberer, new_grain),
                          !.grain_numberer = st.grain_numberer + 1,
                          !.minted = st.minted \cup {st.grain_numberer},
                          !.assigned = Append(st.assigned, st.grain_numberer)]
          ELSE [st EXCEPT !.outcome = "unmatched"]
     ELSE IF old[nid].order_parameter_id # new_grain.order_parameter_id
          THEN [st EXCEPT !.outcome = "op_mismatch", !.thrown_for = nid]
          ELSE [st EXCEPT !.grains = Emplace(st.grains, nid, new_grain),
                          !.matched = st.matched \cup {nid},
                          !.assigned = Append(st.assigned, nid)]

\* TrackOne with the candidate erased before the order parameters are
\* compared
TrackOneEraseFirst(st, new_grain, old, allow) ==
  LET m   == FindMatch(new_grain, st.grains_candidates, old)
      nid == m.new_grain_id
  IN IF nid = InvalidId
     THEN IF allow
          THEN [st EXCEPT !.grains = Emplace(st.grains, st.grain_numberer, new_grain),
                          !.grain_numberer = st.grain_numberer + 1,
                          !.minted = st.minted \cup {st.grain_numberer},
                          !.assigned = Append(st.assigned, st.grain_numberer)]
          ELSE [st EXCEPT !.outcome = "unmatched"]
     ELSE IF old[nid].order_parameter_id # new_grain.order_parameter_id
          THEN [st EXCEPT !.outcome = "op_mismatch", !.thrown_for = nid,
                          !.grains_candidates = st.grains_candidates \ {nid}]
          ELSE [st EXCEPT !.grains = Emplace(st.grains, nid, new_grain),
                          !.grains_candidates = st.grains_candidates \ {nid},
                          !.matched = st.matched \cup {nid},
                          !.assigned = Append(st.assigned, nid)]

\* lines 123-162: one new grain; st holds the locals of track() and the
\* grains map, st.outcome leaves "ok" when an AssertThrow fires
TrackOne(st, new_grain, old, allow) ==
  LET m   == FindMatch(new_grain, st.grains_candidates, old)
      nid == m.new_grain_id
  IN IF nid = InvalidId
     THEN IF allow
          THEN [st EXCEPT !.grains = Emplace(st.grains, st.grain_numberer, new_grain),
                          !.grain_numberer = st.grain_numberer + 1,
                          !.minted = st.minted \cup {st.grain_numberer},
                          !.assigned = Append(st.assigned, st.grain_numberer)]
          ELSE [st EXCEPT !.outcome = "unmatched"]
     ELSE IF old[nid].order_parameter_id # new_grain.order_parameter_id
          THEN [st EXCEPT !.outcome = "op_mismatch", !.thrown_for = nid]
          ELSE [st EXCEPT !.grains = Emplace(st.grains, nid, new_grain),
                          !.grains_candidates = st.grains_candidates \ {nid},
                          !.matched = st.matched \cup {nid},
                          !.assigned = Append(st.assigned, nid)]

\* lines 92-163: the loop over new_grains, left at the first throw
RECURSIVE TrackLoop(_, _, _, _)
TrackLoop(st, new_grains, old, allow) ==
  IF new_grains = <<>> \/ st.outcome # "ok" THEN st
  ELSE TrackLoop(TrackOne(st, Head(new_grains), old, allow),
                 Tail(new_grains), old, allow)

\* lines 72-89: the locals before the loop; numberer is
\* old_grains.rbegin()->first + 1
TrackStart(old, numberer) ==
  [grains |-> EmptyMap, grains_candidates |-> DOMAIN old,
   grain_numberer |-> numberer, outcome |-> "ok", thrown_for |-> InvalidId,
   minted |-> {}, matched |-> {}, assigned |-> <<>>]

(***************************************************************************)
(* Tracker::reassign_grains, lines 1156-1328.                              *)
(***************************************************************************)
\* BufferOverlap without the buffers: only intersecting spheres count
BufferOverlapNoBuffer(g, h) == GrainDistance(g, h) < 0

\* lines 1191-1208: the two grains are closer than the sum of their buffers
\* (buffer_distance_ratio * max_radius each)
BufferOverlap(g, h) ==
  BufferRatioDen * GrainDistance(g, h) <
    BufferRatioNum * get_max_radius(g) + BufferRatioNum * get_max_radius(h)

\* lines 1183-1230: the entries of the sparsity pattern, by grain id
SparsityEdges(gm) ==
  {e \in (DOMAIN gm) \X (DOMAIN gm) :
     e[1] # e[2] /\ BufferOverlap(gm[e[1]], gm[e[2]])}

\* OverlapDetected without the comparison of the order parameters of the two
\* grains
OverlapDetectedAnyChannel(gm, force_reassignment) ==
  \/ force_reassignment
  \/ SparsityEdges(gm) # {}

\* OverlapDetected without the search for grains of one order parameter
\* within their buffers
OverlapDetectedForcedOnly(gm, force_reassignment) == force_reassignment

\* lines 1180, 1213-1226
OverlapDetected(gm, force_reassignment) ==
  \/ force_reassignment
  \/ \E e \in SparsityEdges(gm) :
       gm[e[1]].order_parameter_id = gm[e[2]].order_parameter_id

\* SparsityTools::color_sparsity_pattern (deal.II): any assignment of the
\* colors 1..n_colors to the rows such that coupled rows differ and every
\* color is used; the color a grain gets is not fixed by the library
Colorings(gm) ==
  LET n == Cardinality(DOMAIN gm)
      E == SparsityEdges(gm)
  IN {col \in [DOMAIN gm -> 1..n] :
        /\ \A e \in E : col[e[1]] # col[e[2]]
        /\ \A c \in 1..n :
             (\E k \in DOMAIN gm : col[k] >= c) => (\E k \in DOMAIN gm : col[k] = c)}

NumColors(gm, col) ==
  IF DOMAIN gm = {} THEN 0 ELSE SetMax({col[k] : k \in DOMAIN gm})

\* a coloring that moves the previous order parameter along with the
\* current one
ApplyColoringMovesOld(gm, col) ==
  [k \in DOMAIN gm |-> [gm[k] EXCEPT !.order_parameter_id = col[k] - 1,
                                     !.old_order_parameter_id = col[k] - 1]]

\* lines 1245-1255: new_order_parmeter = color_indices[...] - 1
ApplyColoring(gm, col) ==
  [k \in DOMAIN gm |-> [gm[k] EXCEPT !.order_parameter_id = col[k] - 1]]

\* neighbors by the previous order parameter alone
IsNeighborPreviousOnly(g, h) ==
  /\ g.grain_id # h.grain_id
  /\ g.old_order_parameter_id = h.old_order_parameter_id

\* neighbors by the current order parameter alone
IsNeighborCurrentOnly(g, h) ==
  /\ g.grain_id # h.grain_id
  /\ g.order_parameter_id = h.order_parameter_id

\* lines 1263-1278: neighbors are the other grains that share the current or
\* the previous order parameter
IsNeighbor(g, h) ==
  /\ g.grain_id # h.grain_id
  /\ \/ g.order_parameter_id = h.order_parameter_id
     \/ g.old_order_parameter_id = h.old_order_parameter_id

RECURSIVE AddNeighbors(_, _, _)
AddNeighbors(g, others, gm) ==
  IF others = <<>> THEN g
  ELSE AddNeighbors(IF IsNeighbor(g, gm[Head(others)])
                      THEN add_neighbor(g, gm[Head(others)]) ELSE g,
                    Tail(others), gm)

BuildNeighbors(gm) ==
  [k \in DOMAIN gm |-> AddNeighbors(gm[k], SortedSeq(DOMAIN gm), gm)]

\* lines 1124-1137
build_active_order_parameter_ids(gm) ==
  {gm[k].order_parameter_id : k \in DOMAIN gm}

\* lines 1140-1153
build_old_order_parameter_ids(gm) ==
  {gm[k].old_order_parameter_id : k \in DOMAIN gm}

\* IdsOffset with the offsets counted from 1 instead of 0
IdsOffsetOffByOne(active, op) == op - Rank(active, op) - 1

\* lines 1293-1301: ids_offsets maps the id-th active order parameter to
\* itself minus id
IdsOffset(active, op) == op - Rank(active, op)

\* lines 1303-1316
Compact(gm, active) ==
  [k \in DOMAIN gm |->
     IF IdsOffset(active, gm[k].order_parameter_id) > 0
       THEN [gm[k] EXCEPT !.order_parameter_id =
               gm[k].order_parameter_id
                 - IdsOffset(active, gm[k].order_parameter_id)]
       ELSE gm[k]]

\* the capacity check with the bound off by one
CapacityExceededOffByOne(n_colors, max_num) == n_colors > max_num + 1

\* line 1241: AssertThrow(n_colors <= max_order_parameters_num) fires
CapacityExceeded(n_colors, max_num) == n_colors > max_num

\* The outcomes of *active_order_parameters.rbegin() on an empty set
\* (line 1286, undefined): the process dies, or a value is read that makes
\* mismatch negative, zero or positive
UBOutcomes == {"crash", "negative", "zero", "positive"}

\* reassign_grains as a whole; col is the coloring the library returns when
\* it is called, ub the outcome of the undefined read when grains is empty
Reassign(gm, force_reassignment, col, ub, max_num) ==
  LET overlap_detected == OverlapDetected(gm, force_reassignment)
      n_colors   == IF overlap_detected THEN NumColors(gm, col) ELSE 0
      colored    == IF overlap_detected THEN ApplyColoring(gm, col) ELSE gm
      reassigned == overlap_detected /\
                    \E k \in DOMAIN gm :
                      gm[k].order_parameter_id # colored[k].order_parameter_id
      withnn     == BuildNeighbors(colored)
      active     == build_active_order_parameter_ids(withnn)
      base       == [outcome |-> "ok", grains |-> withnn, active |-> active,
                     grains_reassigned |-> reassigned,
                     overlap_detected |-> overlap_detected,
                     n_colors |-> n_colors]
  IN IF overlap_detected /\ CapacityExceeded(n_colors, max_num)
       THEN [base EXCEPT !.outcome = "capacity", !.grains = gm]
     ELSE IF active = {}
       THEN CASE ub = "crash"    -> [base EXCEPT !.outcome = "crash"]
              [] ub = "negative" -> [base EXCEPT !.outcome = "numbering"]
              [] ub = "zero"     -> base
              [] OTHER           -> [base EXCEPT !.grains_reassigned = TRUE]
     ELSE IF SetMax(active) - (Cardinality(active) - 1) > 0
       THEN LET compacted == Compact(withnn, active)
            IN [base EXCEPT !.grains = compacted,
                            !.active = build_active_order_parameter_ids(compacted),
                            !.grains_reassigned = TRUE]
     ELSE base

(***************************************************************************)
(* Tracker::detect_grains, seen from track() and initial_setup(): the      *)
(* grains it returns.  The map is keyed by a running number, so the grains *)
(* come by order parameter, and within one order parameter the periodic    *)
(* groups (several segments) come before the free particles (lines         *)
(* 1079-1117).                                                             *)
(***************************************************************************)
\* the spheres that lie in the domain [-1, MaxCoord + 1]
Segments ==
  {sg \in [c : 0..MaxCoord, r : 1..MaxRadius] :
     sg.c - sg.r >= -1 /\ sg.c + sg.r <= MaxCoord + 1}

\* the two images of a particle that crosses the periodic boundary
PeriodicShapes == {<<[c |-> 0, r |-> 1], [c |-> MaxCoord, r |-> 1]>>}

Shapes == {<<sg>> : sg \in Segments} \cup PeriodicShapes

DetectedGrains == [op : 0..(n_order_params - 1), segments : Shapes]

DetectionOrder(d) ==
  \A i \in 1..(Len(d) - 1) :
    \/ d[i].op < d[i + 1].op
    \/ /\ d[i].op = d[i + 1].op
       /\ Len(d[i].segments) >= Len(d[i + 1].segments)

Detections ==
  {d \in UNION {[1..n -> DetectedGrains] : n \in 0..MaxGrains} : DetectionOrder(d)}

\* lines 1087-1094, 1107-1114: try_emplace(grain_id, assign_indices ? grain_id
\* : invalid, current_order_parameter_id) and add_segment
DetectedGrain(d, gid) ==
  [NewGrain(gid, d.op) EXCEPT !.segments = d.segments]

\* the map detect_grains returns with assign_indices = true
DetectedMap(det) ==
  [k \in 0..(Len(det) - 1) |-> DetectedGrain(det[k + 1], k)]

\* the sequence of grains detect_grains returns with assign_indices = false
DetectedSeq(det) ==
  [i \in 1..Len(det) |-> DetectedGrain(det[i], InvalidId)]

(***************************************************************************)
(* The state after construction.                                           *)
(***************************************************************************)
NoPre == [taken |-> FALSE]

NoCall ==
  [kind |-> "none", outcome |-> "ok", grains_reassigned |-> FALSE,
   op_number_changed |-> FALSE, n_detected |-> 0, grains_candidates |-> {},
   minted |-> {}, matched |-> {}, thrown_for |-> InvalidId,
   overlap_detected |-> FALSE, n_colors |-> 0, same_field |-> FALSE,
   detected |-> <<>>, assigned |-> <<>>]

\* remap() has not been called
NoRemap ==
  [done |-> FALSE, before |-> EmptyMap, cleaned |-> EmptyMap, log |-> <<>>,
   remappings |-> <<>>, remappings_via_temp |-> <<>>]

\* perform_distributed_stitching is not running
NoStitching ==
  /\ input = <<>>
  /\ connectivity = <<>>
  /\ in_flight = {}
  /\ pc = <<>>
  /\ finished = <<>>
  /\ entered = <<>>
  /\ votes = <<>>
  /\ input_sent = <<>>
  /\ left_in = <<>>
  /\ input_valid = <<>>
  /\ result = <<>>

\* the members of a tracker that was constructed and not called
NoTracking ==
  /\ grains = EmptyMap
  /\ old_grains = EmptyMap
  /\ active_order_parameters = {}
  /\ last = NoCall
  /\ pre = NoPre
  /\ retired = {}
  /\ solution = EmptyMap
  /\ remapped = NoRemap

\* no call of detect_grains is modelled
NoDetection ==
  /\ triangulation = <<>>
  /\ particle_ids = <<>>
  /\ detect_grains = <<>>

InitTracker == NoTracking /\ NoStitching /\ NoDetection

Init ==
  /\ InitTracker
  /\ greedy_init \in BOOLEAN
  /\ allow_new_grains \in BOOLEAN
  /\ max_order_parameters_num \in 1..MaxOrderParams
  /\ n_order_params \in 1..NumBlocks
  /\ steps_left = MaxCalls

Config ==
  <<greedy_init, allow_new_grains, max_order_parameters_num, n_order_params>>

\* the maps of the tracker at the entry of a call, kept when the call fails
Snapshot ==
  [taken |-> TRUE, grains |-> grains, old_grains |-> old_grains,
   active_order_parameters |-> active_order_parameters]

\* the colorings the library may return for this call of reassign_grains
ColorChoices(gm, force) ==
  IF OverlapDetected(gm, force) THEN Colorings(gm) ELSE {<<>>}

\* the outcomes of the undefined read of reassign_grains for this call
UBChoices(gm) == IF DOMAIN gm = {} THEN UBOutcomes ELSE {"none"}

\* the last call of the tracker returned (lines 181, 210) and did not throw
Returned == last.kind \in {"track", "initial_setup"} /\ last.outcome = "ok"

TrackReturned == last.kind = "track" /\ last.outcome = "ok"

\* the guards of the calls: the driver calls initial_setup first and track
\* afterwards, makes no call after a call has failed, and ends the run with
\* remap()
CanSetup == last.kind = "none" /\ steps_left > 0 /\ ~remapped.done

CanTrack ==
  last.kind # "none" /\ last.outcome = "ok" /\ steps_left > 0 /\ ~remapped.done

(***************************************************************************)
(* Tracker::initial_setup, lines 188-211.                                  *)
(***************************************************************************)
InitialSetup(det, col, ub) ==
  \E res \in {Reassign(DetectedMap(det), greedy_init, col, ub,
                       max_order_parameters_num)} :
    \E act \in {IF res.outcome = "capacity"
                  THEN active_order_parameters ELSE res.active} :
      /\ CanSetup
      /\ steps_left' = steps_left - 1
      /\ grains' = res.grains
      /\ old_grains' = old_grains
      /\ active_order_parameters' = act
      /\ last' = [NoCall EXCEPT
                    !.kind = "initial_setup",
                    !.outcome = res.outcome,
                    !.n_detected = Len(det),
                    !.grains_reassigned =
                      (res.outcome = "ok") /\ res.grains_reassigned,
                    !.op_number_changed =
                      (res.outcome = "ok") /\ Cardinality(act) #
                         Cardinality(build_old_order_parameter_ids(res.grains)),
                    !.overlap_detected = res.overlap_detected,
                    !.n_colors = res.n_colors]
      /\ pre' = IF res.outcome # "ok" THEN Snapshot ELSE NoPre
      /\ retired' = retired
      /\ UNCHANGED <<Config, solution, remapped, stitching, detection>>

(***************************************************************************)
(* Tracker::track, lines 69-182.                                           *)
(***************************************************************************)
\* the numberer without the increment: it starts at the largest old id
NumberersNoIncrement(old) ==
  IF DOMAIN old = {} THEN 0..MaxGrainId ELSE {SetMax(DOMAIN old)}

\* line 82: old_grains.rbegin()->first + 1; with no old grain the read is
\* undefined and the numberer may start anywhere
Numberers(old) ==
  IF DOMAIN old = {} THEN 0..MaxGrainId ELSE {SetMax(DOMAIN old) + 1}

\* lines 175-179
\* OpNumberChanged without the comparison with the order parameters the
\* new grains were detected on
OpNumberChangedAgainstOldOnly(active, gm, old) ==
  Cardinality(active) # Cardinality(build_active_order_parameter_ids(old))

OpNumberChanged(active, gm, old) ==
  \/ Cardinality(active) # Cardinality(build_old_order_parameter_ids(gm))
  \/ Cardinality(active) # Cardinality(build_active_order_parameter_ids(old))

\* reassign_grains was not reached
NoReassign ==
  [outcome |-> "ok", grains |-> EmptyMap, active |-> {},
   grains_reassigned |-> FALSE, overlap_detected |-> FALSE, n_colors |-> 0]

\* detect_grains finds the grains of the map gm where the tracker has them:
\* the field did not change since the call that left gm and was remapped
\* to the order parameters of gm
SameField(det, gm) ==
  /\ Len(det) = Cardinality(DOMAIN gm)
  /\ \E f \in [DOMAIN det -> DOMAIN gm] :
       /\ \A i, j \in DOMAIN det : i # j => f[i] # f[j]
       /\ \A i \in DOMAIN det :
            /\ det[i].op = gm[f[i]].order_parameter_id
            /\ det[i].segments = gm[f[i]].segments

\* the call after the matching loop: st holds the locals and the grains map
\* the loop left, res what reassign_grains did (it runs when no throw left
\* the loop)
TrackFinish(st, res, det) ==
  LET old == grains
      outcome == IF st.outcome # "ok" THEN st.outcome ELSE res.outcome
      failed  == outcome # "ok"
      new == IF st.outcome # "ok" THEN st.grains ELSE res.grains
      act == IF st.outcome # "ok" \/ res.outcome = "capacity"
               THEN active_order_parameters ELSE res.active
  IN /\ grains' = new
     /\ old_grains' = old
     /\ active_order_parameters' = act
     /\ last' = [NoCall EXCEPT
                   !.kind = "track",
                   !.outcome = outcome,
                   !.n_detected = Len(det),
                   !.same_field = SameField(det, old),
                   !.grains_candidates = st.grains_candidates,
                   !.minted = st.minted,
                   !.matched = st.matched,
                   !.detected = IF st.outcome = "ok" THEN det ELSE <<>>,
                   !.assigned = IF st.outcome = "ok" THEN st.assigned ELSE <<>>,
                   !.thrown_for = st.thrown_for,
                   !.grains_reassigned = (~failed) /\ res.grains_reassigned,
                   !.op_number_changed =
                     (~failed) /\ OpNumberChanged(act, new, old),
                   !.overlap_detected =
                     (st.outcome = "ok") /\ res.overlap_detected,
                   !.n_colors = IF st.outcome = "ok" THEN res.n_colors ELSE 0]
     /\ pre' = IF failed THEN Snapshot ELSE NoPre
     /\ retired' = IF failed THEN retired
                   ELSE retired \cup (DOMAIN old \ DOMAIN new)
     /\ UNCHANGED <<Config, solution, remapped, stitching, detection>>

Track(det, numberer, col, ub) ==
  /\ CanTrack
  /\ steps_left' = steps_left - 1
  /\ \E st \in {TrackLoop(TrackStart(grains, numberer), DetectedSeq(det),
                          grains, allow_new_grains)} :
       /\ st.grain_numberer <= MaxGrainId + 1
       /\ \E res \in {IF st.outcome = "ok"
                        THEN Reassign(st.grains, FALSE, col, ub,
                                      max_order_parameters_num)
                        ELSE NoReassign} :
            TrackFinish(st, res, det)

\* the grains map the matching loop of a call hands to reassign_grains
MatchedGrains(det, numberer) ==
  TrackLoop(TrackStart(grains, numberer), DetectedSeq(det), grains,
            allow_new_grains)

DoInitialSetup ==
  /\ CanSetup
  /\ \E det \in Detections :
       \E col \in ColorChoices(DetectedMap(det), greedy_init) :
         \E ub \in UBChoices(DetectedMap(det)) :
           InitialSetup(det, col, ub)

DoTrack ==
  /\ CanTrack
  /\ \E det \in Detections :
       \E numberer \in Numberers(grains) :
         \E st \in {MatchedGrains(det, numberer)} :
           \E col \in (IF st.outcome = "ok"
                         THEN ColorChoices(st.grains, FALSE) ELSE {<<>>}) :
             \E ub \in (IF st.outcome = "ok"
                          THEN UBChoices(st.grains) ELSE {"none"}) :
               Track(det, numberer, col, ub)

Next == DoInitialSetup \/ DoTrack

Spec == Init /\ [][Next]_vars

\* a longer run of a tracker that may mint grain ids, on one order parameter
InitLong ==
  /\ InitTracker
  /\ greedy_init = FALSE
  /\ allow_new_grains = TRUE
  /\ max_order_parameters_num = MaxOrderParams
  /\ n_order_params = 1
  /\ steps_left = MaxCalls + 1

SpecLong == InitLong /\ [][Next]_vars

(***************************************************************************)
(* Tracker::remap, lines 221-537.  One field container is followed: the    *)
(* callbacks run on every container of solutions alike, one after the      *)
(* other.  A cell is named by its barycenter, a container holds one value  *)
(* per block and cell, and order_parameters_offset is 0.                   *)
(***************************************************************************)
\* the barycenters of the (locally owned) cells
Cells ==
  IF triangulation # <<>> /\ "cells" \in DOMAIN triangulation
    THEN triangulation.cells
    ELSE 0..MaxCoord

\* the blocks of an order parameter in a container
Channels == 0..(n_order_params - 1)

Support(f) == {p \in Channels \X Cells : f[p[1]][p[2]] # 0}

\* the containers a caller may pass
Fields ==
  {f \in [Channels -> [Cells -> 0..MaxValue]] :
     Cardinality(Support(f)) <= MaxNonzero}

Range(s) == {s[i] : i \in DOMAIN s}

\* lines 245-254: the cell lies within radius + transfer_buffer of a segment
\* center (both sides doubled)
in_grain(x, grain) ==
  \E i \in DOMAIN grain.segments :
    2 * PointDistance(x, grain.segments[i].c)
      < 2 * grain.segments[i].r + transfer_buffer2(grain)

\* the cells alter_dof_values_for_grain calls the callback for
Zone(grain) == {x \in Cells : in_grain(x, grain)}

\* the callback of lines 293-295, 454-456 and 496-498 on the cells of the
\* grain: the values of block op_id are set to zero
SetZero(f, op_id, grain) ==
  [f EXCEPT ![op_id] =
     [x \in Cells |-> IF in_grain(x, grain) THEN 0 ELSE f[op_id][x]]]

\* the callback of lines 442-444, 485-486 and 526-528 on the cells of the
\* grain: the values of block op_id_src of src are written to block op_id_dst
\* of dst
Transfer(src, op_id_src, dst, op_id_dst, grain) ==
  [dst EXCEPT ![op_id_dst] =
     [x \in Cells |->
        IF in_grain(x, grain) THEN src[op_id_src][x] ELSE dst[op_id_dst][x]]]

\* an entry of the log of remap()
LogEntry(what, grain_id, from, to) ==
  [what |-> what, grain_id |-> grain_id, from |-> from, to |-> to]

\* disappered_grains without the difference: every old grain
disappered_grainsAllOld(old, gm) == DOMAIN old

\* lines 268-275: std::set_difference of old_grains and grains by key
disappered_grains(old, gm) == DOMAIN old \ DOMAIN gm

\* lines 277-297: st holds the container, the temporary vector and the log
RECURSIVE CleanDisappeared(_, _, _)
CleanDisappeared(st, ids, old) ==
  IF ids = <<>> THEN st
  ELSE LET gr == old[Head(ids)]
       IN CleanDisappeared(
            [st EXCEPT
               !.solution = SetZero(st.solution, gr.order_parameter_id, gr),
               !.log = Append(st.log,
                              LogEntry("disappeared", gr.grain_id,
                                       gr.order_parameter_id,
                                       gr.order_parameter_id))],
            Tail(ids), old)

Remapping(grain) ==
  [grain_id |-> grain.grain_id, from |-> grain.old_order_parameter_id,
   to |-> grain.order_parameter_id]

\* lines 300-313: one remapping for every grain whose order parameter
\* changed, in the order of the map
RECURSIVE BuildRemappings(_, _)
BuildRemappings(ids, gm) ==
  IF ids = <<>> THEN <<>>
  ELSE (IF gm[Head(ids)].order_parameter_id # gm[Head(ids)].old_order_parameter_id
          THEN <<Remapping(gm[Head(ids)])>> ELSE <<>>)
         \o BuildRemappings(Tail(ids), gm)

\* lines 329-333: grain_i.distance(grain_j) - buffer_i - buffer_j < 0,
\* doubled
has_overlap(grain_i, grain_j) ==
  2 * GrainDistance(grain_i, grain_j)
    - transfer_buffer2(grain_i) - transfer_buffer2(grain_j) < 0

\* line 339: the condition under which ri and rj are added to the graph
Collides(ri, rj, gm) ==
  /\ ri # rj
  /\ has_overlap(gm[ri.grain_id], gm[rj.grain_id])
  /\ ri.to = rj.from

\* BuildGraph that adds no remapping to the graph
BuildGraphEmpty(remappings, gm) == {}

\* lines 316-364: the remappings added to the graph; RemapGraph keeps one
\* edge from -> to for each
BuildGraph(remappings, gm) ==
  {r \in Range(remappings) :
     \E q \in Range(remappings) : Collides(r, q, gm) \/ Collides(q, r, gm)}

\* the pairs of order parameters joined by a path of edges
RECURSIVE TransitiveClosure(_)
TransitiveClosure(P) ==
  LET Q == P \cup {<<pp[1][1], pp[2][2]>> :
                     pp \in {pq \in P \X P : pq[1][2] = pq[2][1]}}
  IN IF Q = P THEN P ELSE TransitiveClosure(Q)

\* the remappings of the graph that lie on a cycle of order parameters
CycleMembers(graph) ==
  {r \in graph :
     <<r.to, r.from>> \in TransitiveClosure({<<e.from, e.to>> : e \in graph})}

\* RemapGraph::resolve_cycles: the sets of cycle members that may be taken
\* out of the list and routed through temporary blocks; what is left of the
\* graph has no cycle
resolve_cycles(graph) ==
  {V \in SUBSET CycleMembers(graph) : CycleMembers(graph \ V) = {}}

Orderings(S) ==
  {q \in [1..Cardinality(S) -> S] :
     \A i, j \in 1..Cardinality(S) : i # j => q[i] # q[j]}

\* RemapGraph::rearrange: the orders in which the remaining remappings may
\* be left; a remapping out of an order parameter comes before the
\* remapping of an overlapping grain into it
rearrange(rest, gm) ==
  {q \in Orderings(Range(rest)) :
     \A i, j \in DOMAIN q : i < j => ~Collides(q[i], q[j], gm)}

\* lines 404-415: one zero block for every remapping routed through temp
TempBlocks(n) == [b \in 1..n |-> [x \in Cells |-> 0]]

\* lines 419-458: the source block is copied to the temporary block of the
\* remapping and then set to zero
RECURSIVE DrainToTemp(_, _, _, _)
DrainToTemp(st, via, b, gm) ==
  IF b > Len(via) THEN st
  ELSE LET re == via[b]
           grain == gm[re.grain_id]
       IN DrainToTemp(
            [st EXCEPT
               !.temp = Transfer(st.solution, re.from, st.temp, b, grain),
               !.solution = SetZero(st.solution, re.from, grain),
               !.log = Append(st.log,
                              LogEntry("to_temp", re.grain_id, re.from,
                                       InvalidId))],
            via, b + 1, gm)

\* DirectTransfers without the second pass that nullifies the old dofs
RECURSIVE DirectTransfersNoZero(_, _, _)
DirectTransfersNoZero(st, remappings, gm) ==
  IF remappings = <<>> THEN st
  ELSE LET re == Head(remappings)
           grain == gm[re.grain_id]
       IN DirectTransfersNoZero(
            [st EXCEPT
               !.solution = Transfer(st.solution, re.from, st.solution, re.to,
                                     grain),
               !.log = Append(st.log,
                              LogEntry("direct", re.grain_id, re.from, re.to))],
            Tail(remappings), gm)

\* lines 461-500: the source block is copied to the destination block and
\* then set to zero
RECURSIVE DirectTransfers(_, _, _)
DirectTransfers(st, remappings, gm) ==
  IF remappings = <<>> THEN st
  ELSE LET re == Head(remappings)
           grain == gm[re.grain_id]
           copied == Transfer(st.solution, re.from, st.solution, re.to, grain)
       IN DirectTransfers(
            [st EXCEPT
               !.solution = SetZero(copied, re.from, grain),
               !.log = Append(st.log,
                              LogEntry("direct", re.grain_id, re.from, re.to))],
            Tail(remappings), gm)

\* RefillFromTemp copying the temporary block back to the block it was
\* drained from
RECURSIVE RefillFromTempIntoOld(_, _, _, _)
RefillFromTempIntoOld(st, via, b, gm) ==
  IF b > Len(via) THEN st
  ELSE LET re == via[b]
           grain == gm[re.grain_id]
       IN RefillFromTempIntoOld(
            [st EXCEPT
               !.solution = Transfer(st.temp, b, st.solution, re.from, grain),
               !.log = Append(st.log,
                              LogEntry("from_temp", re.grain_id, InvalidId,
                                       re.to))],
            via, b + 1, gm)

\* lines 503-534: the temporary block is copied to the destination block
RECURSIVE RefillFromTemp(_, _, _, _)
RefillFromTemp(st, via, b, gm) ==
  IF b > Len(via) THEN st
  ELSE LET re == via[b]
           grain == gm[re.grain_id]
       IN RefillFromTemp(
            [st EXCEPT
               !.solution = Transfer(st.temp, b, st.solution, re.to, grain),
               !.log = Append(st.log,
                              LogEntry("from_temp", re.grain_id, InvalidId,
                                       re.to))],
            via, b + 1, gm)

\* RemapRun with the blocks of the disappeared grains set to zero after the
\* transfers
RemapRunCleanLast(f, gm, old, via, remappings) ==
  LET st0 == [solution |-> f, temp |-> TempBlocks(Len(via)), log |-> <<>>,
              cleaned |-> f]
      st2 == DrainToTemp(st0, via, 1, gm)
      st3 == DirectTransfers(st2, remappings, gm)
      st4 == RefillFromTemp(st3, via, 1, gm)
      cl  == CleanDisappeared(st4, SortedSeq(disappered_grains(old, gm)), old)
  IN [cl EXCEPT !.cleaned = cl.solution]

\* RemapRun with the temporary blocks copied to their destinations before
\* the direct transfers
RemapRunRefillFirst(f, gm, old, via, remappings) ==
  LET st0 == [solution |-> f, temp |-> TempBlocks(Len(via)), log |-> <<>>,
              cleaned |-> f]
      cl  == CleanDisappeared(st0, SortedSeq(disappered_grains(old, gm)), old)
      st1 == [cl EXCEPT !.cleaned = cl.solution]
      st2 == DrainToTemp(st1, via, 1, gm)
      st3 == RefillFromTemp(st2, via, 1, gm)
  IN DirectTransfers(st3, remappings, gm)

\* remap() as a whole on the container f; via are the remappings
\* resolve_cycles routes through temp, remappings the list the direct loop
\* runs over
RemapRun(f, gm, old, via, remappings) ==
  LET st0 == [solution |-> f, temp |-> TempBlocks(Len(via)), log |-> <<>>,
              cleaned |-> f]
      cl  == CleanDisappeared(st0, SortedSeq(disappered_grains(old, gm)), old)
      st1 == [cl EXCEPT !.cleaned = cl.solution]
      st2 == DrainToTemp(st1, via, 1, gm)
      st3 == DirectTransfers(st2, remappings, gm)
  IN RefillFromTemp(st3, via, 1, gm)

\* every block remap() reads or writes is a block of the container
BlocksInRange ==
  /\ \A k \in DOMAIN grains :
       /\ grains[k].order_parameter_id \in Channels
       /\ grains[k].old_order_parameter_id \in Channels
  /\ \A k \in DOMAIN old_grains : old_grains[k].order_parameter_id \in Channels

\* the driver calls remap() after a call of the tracker that returned
CanRemap == Returned /\ ~remapped.done /\ BlocksInRange

\* a remap() that takes the moved grains as settled: it makes the
\* order parameter they were moved to their previous one
RemapSettlesGrains(f, via, remappings) ==
  \E st \in {RemapRun(f, grains, old_grains, via, remappings)} :
    /\ CanRemap
    /\ solution' = st.solution
    /\ remapped' = [done |-> TRUE, before |-> f, cleaned |-> st.cleaned,
                    log |-> st.log, remappings |-> remappings,
                    remappings_via_temp |-> via]
    /\ grains' = [k \in DOMAIN grains |->
                    [grains[k] EXCEPT !.old_order_parameter_id =
                       grains[k].order_parameter_id]]
    /\ UNCHANGED <<old_grains, active_order_parameters, Config,
                   steps_left, last, pre, retired, stitching, detection>>

Remap(f, via, remappings) ==
  \E st \in {RemapRun(f, grains, old_grains, via, remappings)} :
    /\ CanRemap
    /\ solution' = st.solution
    /\ remapped' = [done |-> TRUE, before |-> f, cleaned |-> st.cleaned,
                    log |-> st.log, remappings |-> remappings,
                    remappings_via_temp |-> via]
    /\ UNCHANGED <<grains, old_grains, active_order_parameters, Config,
                   steps_left, last, pre, retired, stitching, detection>>

\* lines 366-390: the list is left as built when the graph is empty;
\* otherwise resolve_cycles takes remappings out and rearrange orders the
\* rest
DoRemap ==
  /\ CanRemap
  /\ \E f \in Fields :
       \E built \in {BuildRemappings(SortedSeq(DOMAIN grains), grains)} :
         \E graph \in {BuildGraph(built, grains)} :
           \E V \in (IF graph = {} THEN {{}} ELSE resolve_cycles(graph)) :
             \E via \in {SelectSeq(built, LAMBDA r : r \in V)} :
               \E rest \in {SelectSeq(built, LAMBDA r : r \notin V)} :
                 \E remappings \in (IF graph = {} THEN {rest}
                                    ELSE rearrange(rest, grains)) :
                   Remap(f, via, remappings)

NextRemap == DoInitialSetup \/ DoTrack \/ DoRemap

\* a tracker that takes every grain it detects from the old grains, on
\* containers with as many blocks as order parameters it may use
InitRemap ==
  /\ InitTracker
  /\ greedy_init \in BOOLEAN
  /\ allow_new_grains = FALSE
  /\ max_order_parameters_num = NumBlocks
  /\ n_order_params = NumBlocks
  /\ steps_left = MaxCalls

SpecRemap == InitRemap /\ [][NextRemap]_vars

\* detect_grains on a field with one grain on each of CycleLength order
\* parameters, every two of the grains closer than their buffers
CycleDetections ==
  {det \in [1..CycleLength ->
              [op : 0..(CycleLength - 1), segments : {<<sg>> : sg \in Segments}]] :
     /\ \A i \in 1..CycleLength : det[i].op = i - 1
     /\ \A i, j \in 1..CycleLength :
          i # j => BufferOverlap(DetectedGrain(det[i], i - 1),
                                 DetectedGrain(det[j], j - 1))}

\* initial_setup() on such a field
DoSetupCycle ==
  /\ CanSetup
  /\ \E det \in CycleDetections :
       \E col \in ColorChoices(DetectedMap(det), greedy_init) :
         \E ub \in UBChoices(DetectedMap(det)) :
           InitialSetup(det, col, ub)

NextCycle == DoSetupCycle \/ DoRemap

\* a tracker with greedy_init on containers of CycleLength blocks: the
\* coloring of initial_setup() may permute the order parameters
InitCycle ==
  /\ InitTracker
  /\ greedy_init = TRUE
  /\ allow_new_grains = FALSE
  /\ max_order_parameters_num = CycleLength
  /\ n_order_params = CycleLength
  /\ steps_left = 1

SpecCycle == InitCycle /\ [][NextCycle]_vars

\* the fields on which detect_grains finds three grains of one segment each,
\* two on order parameter 0 and one on order parameter 1, the second within
\* the buffers of the first and of the third: a coloring may move the second
\* to order parameter 1 and the third on to order parameter 2
ChainDetections ==
  {det \in [1..CycleLength ->
              [op : 0..(CycleLength - 1), segments : {<<sg>> : sg \in Segments}]] :
     /\ det[1].op = 0 /\ det[2].op = 0 /\ det[3].op = 1
     /\ BufferOverlap(DetectedGrain(det[1], 0), DetectedGrain(det[2], 1))
     /\ BufferOverlap(DetectedGrain(det[2], 1), DetectedGrain(det[3], 2))}

\* initial_setup() on such a field
DoSetupChain ==
  /\ CanSetup
  /\ \E det \in ChainDetections :
       \E col \in ColorChoices(DetectedMap(det), greedy_init) :
         \E ub \in UBChoices(DetectedMap(det)) :
           InitialSetup(det, col, ub)

NextChain == DoSetupChain \/ DoRemap

\* the tracker and the containers of SpecCycle on these fields
SpecChain == InitCycle /\ [][NextChain]_vars

\* detect_grains on a field with CollisionGrains grains of one particle
\* each, the last one on order parameter 1 and the others on order
\* parameter 0
CollisionDetections ==
  {d \in [1..CollisionGrains ->
            [op : 0..1, segments : {<<sg>> : sg \in Segments}]] :
     \A i \in 1..CollisionGrains :
       d[i].op = IF i < CollisionGrains THEN 0 ELSE 1}

\* initial_setup() on such a field
DoSetupCollision ==
  /\ CanSetup
  /\ \E det \in CollisionDetections :
       \E col \in ColorChoices(DetectedMap(det), greedy_init) :
         \E ub \in UBChoices(DetectedMap(det)) :
           InitialSetup(det, col, ub)

\* track() on such a field
DoTrackCollision ==
  /\ CanTrack
  /\ \E det \in CollisionDetections :
       \E numberer \in Numberers(grains) :
         \E st \in {MatchedGrains(det, numberer)} :
           \E col \in (IF st.outcome = "ok"
                         THEN ColorChoices(st.grains, FALSE) ELSE {<<>>}) :
             \E ub \in (IF st.outcome = "ok"
                          THEN UBChoices(st.grains) ELSE {"none"}) :
               Track(det, numberer, col, ub)

NextCollision == DoSetupCollision \/ DoTrackCollision

\* a tracker without greedy_init and without new grains that has an order
\* parameter to spare
InitCollision ==
  /\ InitTracker
  /\ greedy_init = FALSE
  /\ allow_new_grains = FALSE
  /\ max_order_parameters_num = CollisionGrains
  /\ n_order_params = NumBlocks
  /\ steps_left = MaxCalls

SpecCollision == InitCollision /\ [][NextCollision]_vars

(***************************************************************************)
(* Tracker::perform_distributed_stitching (lines 634-789), run by NumRanks *)
(* processes.  A particle is the tuple <<rank, id>> of the rank that owns  *)
(* it and its id, the local index plus the offset of the rank; input[r][i] *)
(* is the sorted vector without duplicates of the particles known to be    *)
(* one with the local particle i - 1 of rank r, a set here.  Every rank    *)
(* steps through the function on its own; the ranks meet in the            *)
(* collectives (MPI_Exscan, the consensus exchange, MPI::sum, MPI_Barrier) *)
(* and the messages of an exchange are processed in any order.             *)
(***************************************************************************)
Ranks == 0..(NumRanks - 1)

\* MPI_Exscan with MPI_SUM (lines 647, 751): the sum over the lower ranks;
\* the buffer of rank 0 keeps its initial value 0
RECURSIVE Exscan(_, _)
Exscan(value, r) ==
  IF r = 0 THEN 0 ELSE Exscan(value, r - 1) + value[r - 1]

\* lines 644-647
offset(r) == Exscan([s \in Ranks |-> Len(input[s])], r)

\* operator< of std::tuple<unsigned int, unsigned int>
TupleLess(p, q) == p[1] < q[1] \/ (p[1] = q[1] /\ p[2] < q[2])

\* the element [0] of a sorted vector
First(S) == CHOOSE p \in S : \A q \in S \ {p} : TupleLess(p, q)

\* data_to_send with the particle itself only, without the rest of input_i
data_to_sendSelfOnly(r) ==
  UNION {{[to |-> e[1], id |-> e[2],
           values |-> {<<r, (i - 1) + offset(r)>>}] :
            e \in {x \in input[r][i] : x[1] # r}} : i \in DOMAIN input[r]}

\* lines 655-680: to the rank of every particle of input_i on another rank
\* go the id of that particle and the particle i itself with the rest of
\* input_i
data_to_send(r) ==
  UNION {{[to |-> e[1], id |-> e[2],
           values |-> {<<r, (i - 1) + offset(r)>>} \cup (input[r][i] \ {e})] :
            e \in {x \in input[r][i] : x[1] # r}} : i \in DOMAIN input[r]}

\* the ranks that have not yet called perform_distributed_stitching
BeforeStitching == {s \in Ranks : pc[s] \in {"flood", "exscan", "ghosts"}}

\* lines 644-693: MPI_Exscan returns on a rank when the lower ranks have
\* entered it; the rank then starts a round of the loop: it builds
\* data_to_send, sets finished and hands one message per target to the
\* consensus algorithm
BuildAndSend(r) ==
  /\ pc[r] = "build"
  /\ \A s \in Ranks : s < r => s \notin BeforeStitching
  /\ in_flight' = in_flight \cup
       {[kind |-> "clique", from |-> r, to |-> t,
         data |-> {[id |-> d.id, values |-> d.values] :
                     d \in {x \in data_to_send(r) : x.to = t}}] :
          t \in {d.to : d \in data_to_send(r)}}
  /\ finished' = [finished EXCEPT ![r] = TRUE]
  /\ input_sent' = [input_sent EXCEPT ![r] = input[r]]
  /\ pc' = [pc EXCEPT ![r] = "exchange"]
  /\ UNCHANGED <<input, connectivity, entered, votes, left_in, input_valid,
                 result, tracker, detection>>

\* lines 695-711: insert, sort and unique for every entry of a message
Merged(inp, off, data) ==
  [i \in DOMAIN inp |->
     inp[i] \cup UNION {d.values : d \in {x \in data : x.id - off = i - 1}}]

\* lines 694-712: the consensus algorithm hands a message to the rank it
\* was sent to
Process(r) ==
  /\ pc[r] = "exchange"
  /\ \E m \in in_flight :
       /\ m.kind = "clique"
       /\ m.to = r
       /\ \E new \in {Merged(input[r], offset(r), m.data)} :
            /\ input' = [input EXCEPT ![r] = new]
            /\ finished' = [finished EXCEPT ![r] = finished[r] /\ new = input[r]]
       /\ in_flight' = in_flight \ {m}
  /\ UNCHANGED <<connectivity, pc, entered, votes, input_sent, left_in,
                 input_valid, result, tracker, detection>>

\* lines 713-715: the consensus algorithm returns on a rank when every rank
\* has handed over its messages and those to this rank are processed; the
\* rank gives its finished to MPI::sum
EnterSum(r) ==
  /\ pc[r] = "exchange"
  /\ \A s \in Ranks :
       \/ pc[s] = "exchange" /\ entered[s] = entered[r]
       \/ entered[s] > entered[r]
  /\ ~\E m \in in_flight : m.kind = "clique" /\ m.to = r
  /\ entered' = [entered EXCEPT ![r] = entered[r] + 1]
  /\ votes' = [votes EXCEPT ![r] = finished[r]]
  /\ pc' = [pc EXCEPT ![r] = "sum"]
  /\ UNCHANGED <<input, connectivity, in_flight, finished, input_sent,
                 left_in, input_valid, result, tracker, detection>>

\* IsFirstOfClique with the comparison of the ranks only
IsFirstOfCliqueByRank(r, i) == r <= First(input[r][i])[1]

\* lines 736-737: the local particle i - 1 of rank r is before the first
\* particle of its clique
IsFirstOfClique(r, i) ==
  /\ r <= First(input[r][i])[1]
  /\ (i - 1) + offset(r) < First(input[r][i])[2]

\* lines 721-745: input_valid, one entry for every clique whose first
\* particle is a local one
RECURSIVE BuildInputValid(_, _)
BuildInputValid(r, i) ==
  IF i > Len(input[r]) THEN <<>>
  ELSE (IF input[r][i] = {} \/ IsFirstOfClique(r, i)
          THEN <<{<<r, (i - 1) + offset(r)>>} \cup input[r][i]>>
          ELSE <<>>)
         \o BuildInputValid(r, i + 1)

\* the exit test of a loop that asks for a sum larger than n_ranks
LeavesLoopNever(r) == FALSE

\* the exit of the loop decided by the local finished alone
LeavesLoopOnOwnVote(r) == votes[r]

\* lines 715-717: Utilities::MPI::sum(finished, comm) == n_ranks
LeavesLoop(r) == \A s \in Ranks : votes[s]

\* lines 715-745: MPI::sum returns on a rank when every rank has entered
\* it; the rank starts another round or leaves the loop and builds
\* input_valid
LeaveSum(r) ==
  /\ pc[r] = "sum"
  /\ \A s \in Ranks : entered[s] >= entered[r]
  /\ IF LeavesLoop(r)
       THEN /\ pc' = [pc EXCEPT ![r] = "notify"]
            /\ left_in' = [left_in EXCEPT ![r] = entered[r]]
            /\ input_valid' = [input_valid EXCEPT ![r] = BuildInputValid(r, 1)]
       ELSE /\ pc' = [pc EXCEPT ![r] = "build"]
            /\ UNCHANGED <<left_in, input_valid>>
  /\ UNCHANGED <<input, connectivity, in_flight, finished, entered, votes,
                 input_sent, result, tracker, detection>>

\* the ranks that have left the loop
OutOfLoop == {s \in Ranks : pc[s] \in {"notify", "collect", "barrier", "done"}}

\* every rank numbering its cliques from 0
offset_pZero(r) == 0

\* lines 748-751
offset_p(r) == Exscan([s \in Ranks |-> Len(input_valid[s])], r)

\* lines 756-761: every particle of a clique is sent the number of the
\* clique
data_to_send_(r) ==
  UNION {{[to |-> j[1], id |-> j[2], value |-> (i - 1) + offset_p(r)] :
            j \in input_valid[r][i]} : i \in DOMAIN input_valid[r]}

\* lines 747-775: MPI_Exscan returns on a rank when the lower ranks have
\* entered it; the rank hands the numbers of its cliques to the consensus
\* algorithm
Notify(r) ==
  /\ pc[r] = "notify"
  /\ \A s \in Ranks : s < r => s \in OutOfLoop
  /\ in_flight' = in_flight \cup
       {[kind |-> "id", from |-> r, to |-> t,
         data |-> {[id |-> d.id, value |-> d.value] :
                     d \in {x \in data_to_send_(r) : x.to = t}}] :
          t \in {d.to : d \in data_to_send_(r)}}
  /\ pc' = [pc EXCEPT ![r] = "collect"]
  /\ UNCHANGED <<input, connectivity, finished, entered, votes, input_sent,
                 left_in, input_valid, result, tracker, detection>>

\* lines 776-783: result[id - offset] = number of the clique, the entries
\* of a message in the order they were put in
Stored(res, off, data) ==
  [i \in DOMAIN res |->
     IF \E d \in data : d.id - off = i - 1
       THEN SetMax({d.value : d \in {x \in data : x.id - off = i - 1}})
       ELSE res[i]]

Store(r) ==
  /\ pc[r] = "collect"
  /\ \E m \in in_flight :
       /\ m.kind = "id"
       /\ m.to = r
       /\ result' = [result EXCEPT ![r] = Stored(result[r], offset(r), m.data)]
       /\ in_flight' = in_flight \ {m}
  /\ UNCHANGED <<input, connectivity, pc, finished, entered, votes,
                 input_sent, left_in, input_valid, tracker, detection>>

\* lines 784-786: the second exchange returns on a rank when every rank
\* has handed over its messages and those to this rank are stored
EnterBarrier(r) ==
  /\ pc[r] = "collect"
  /\ \A s \in Ranks : pc[s] \in {"collect", "barrier", "done"}
  /\ ~\E m \in in_flight : m.kind = "id" /\ m.to = r
  /\ pc' = [pc EXCEPT ![r] = "barrier"]
  /\ UNCHANGED <<input, connectivity, in_flight, finished, entered, votes,
                 input_sent, left_in, input_valid, result, tracker, detection>>

\* lines 786-788: MPI_Barrier returns when every rank has entered it
Return(r) ==
  /\ pc[r] = "barrier"
  /\ \A s \in Ranks : pc[s] \in {"barrier", "done"}
  /\ pc' = [pc EXCEPT ![r] = "done"]
  /\ UNCHANGED <<input, connectivity, in_flight, finished, entered, votes,
                 input_sent, left_in, input_valid, result, tracker, detection>>

DoBuildAndSend == \E r \in Ranks : BuildAndSend(r)
DoProcess == \E r \in Ranks : Process(r)
DoEnterSum == \E r \in Ranks : EnterSum(r)
DoLeaveSum == \E r \in Ranks : LeaveSum(r)
DoNotify == \E r \in Ranks : Notify(r)
DoStore == \E r \in Ranks : Store(r)
DoEnterBarrier == \E r \in Ranks : EnterBarrier(r)
DoReturn == \E r \in Ranks : Return(r)

NextStitching ==
  \/ DoBuildAndSend
  \/ DoProcess
  \/ DoEnterSum
  \/ DoLeaveSum
  \/ DoNotify
  \/ DoStore
  \/ DoEnterBarrier
  \/ DoReturn

\* the particles of ranks with size[r] local particles each
ParticlesOf(size) ==
  UNION {{<<r, Exscan(size, r) + i>> : i \in 0..(size[r] - 1)} : r \in Ranks}

\* the pairs of particles of different ranks
CrossPairs(size) ==
  {pq \in SUBSET ParticlesOf(size) :
     /\ Cardinality(pq) = 2
     /\ \A p, q \in pq : p # q => p[1] # q[1]}

\* lines 834-886 of detect_grains: local_connectiviy holds for every local
\* particle the particles of ghost cells that share a face with one of its
\* cells; a face between two ranks is seen from both
LocalConnectivity(size, E) ==
  [r \in Ranks |->
     [i \in 1..size[r] |->
        {q \in ParticlesOf(size) : {<<r, Exscan(size, r) + (i - 1)>>, q} \in E}]]

InitStitching ==
  /\ NoTracking
  /\ NoDetection
  /\ greedy_init = FALSE
  /\ allow_new_grains = FALSE
  /\ max_order_parameters_num = 1
  /\ n_order_params = 1
  /\ steps_left = 0
  /\ \E size \in [Ranks -> 0..MaxLocal] :
       \E E \in {e \in SUBSET CrossPairs(size) : Cardinality(e) <= MaxEdges} :
         /\ input = LocalConnectivity(size, E)
         /\ result = [r \in Ranks |-> [i \in 1..size[r] |-> InvalidId]]
  /\ connectivity = input
  /\ in_flight = {}
  /\ pc = [r \in Ranks |-> "build"]
  /\ finished = [r \in Ranks |-> FALSE]
  /\ entered = [r \in Ranks |-> 0]
  /\ votes = [r \in Ranks |-> FALSE]
  /\ input_sent = input
  /\ left_in = [r \in Ranks |-> 0]
  /\ input_valid = [r \in Ranks |-> <<>>]

SpecStitching == InitStitching /\ [][NextStitching]_vars

\* every process keeps running: a rank that can take a step takes one
SpecStitchingFair == SpecStitching /\ WF_vars(NextStitching)

(***************************************************************************)
(* detect_grains for one order parameter (tracker.h 791-1121) on a strip   *)
(* of quadrilateral cells.  A cell is <<c>>, the coarse cell number c of   *)
(* the strip, or <<c, k>>, the child k of the refined coarse cell c, with  *)
(* the children numbered as in the library: k % 2 is the position along    *)
(* the strip and k \div 2 the position across it.  Lengths are counted in  *)
(* halves of the side of a coarse cell.                                    *)
(***************************************************************************)

CoarseCells == 0..(NumCoarse - 1)

\* dof_handler.active_cell_iterators(): the active cells in the order of the
\* iteration, for the coarse cells from c on
RECURSIVE ActiveFrom(_, _)
ActiveFrom(refined, c) ==
  IF c = NumCoarse THEN <<>>
  ELSE (IF c \in refined THEN <<<<c, 0>>, <<c, 1>>, <<c, 2>>, <<c, 3>>>>
                         ELSE <<<<c>>>>) \o ActiveFrom(refined, c + 1)

active_cell_iterators == ActiveFrom(triangulation.refined, 0)

ActiveCells == {active_cell_iterators[i] : i \in DOMAIN active_cell_iterators}

has_children(cell) == Len(cell) = 1 /\ cell[1] \in triangulation.refined

child_iterators(cell) ==
  <<<<cell[1], 0>>, <<cell[1], 1>>, <<cell[1], 2>>, <<cell[1], 3>>>>

is_locally_owned(r, cell) == triangulation.subdomain_id[cell] = r

\* the faces 0 and 1 of a cell look along the strip, the faces 2 and 3
\* across it; the strip is one coarse cell wide and not periodic
at_boundary(cell, face) ==
  IF Len(cell) = 1
  THEN \/ face \in {2, 3}
       \/ face = 0 /\ cell[1] = 0
       \/ face = 1 /\ cell[1] = NumCoarse - 1
  ELSE \/ face = 0 /\ cell[2] % 2 = 0 /\ cell[1] = 0
       \/ face = 1 /\ cell[2] % 2 = 1 /\ cell[1] = NumCoarse - 1
       \/ face = 2 /\ cell[2] \div 2 = 0
       \/ face = 3 /\ cell[2] \div 2 = 1

\* cell->neighbor(face): the cell behind the face on the level of the cell,
\* which may have children, or the coarser active cell when there is none
\* on that level
neighbor(cell, face) ==
  IF Len(cell) = 1
  THEN IF face = 0 THEN <<cell[1] - 1>> ELSE <<cell[1] + 1>>
  ELSE LET c == cell[1]
           k == cell[2]
       IN CASE face = 0 /\ k % 2 = 1 -> <<c, k - 1>>
            [] face = 1 /\ k % 2 = 0 -> <<c, k + 1>>
            [] face = 2 -> <<c, k - 2>>
            [] face = 3 -> <<c, k + 2>>
            [] face = 0 /\ k % 2 = 0 ->
                 IF (c - 1) \in triangulation.refined
                 THEN <<c - 1, k + 1>> ELSE <<c - 1>>
            [] face = 1 /\ k % 2 = 1 ->
                 IF (c + 1) \in triangulation.refined
                 THEN <<c + 1, k - 1>> ELSE <<c + 1>>

\* GeometryInfo<2>::n_subfaces
n_subfaces == 2

\* cell->neighbor_child_on_subface(face, subface) of a coarse cell whose
\* neighbor behind the face has children: the children that lie on the face
neighbor_child_on_subface(cell, face, subface) ==
  IF face = 0 THEN <<cell[1] - 1, 2 * subface + 1>>
              ELSE <<cell[1] + 1, 2 * subface>>

\* the faces of a cell that are not at the boundary, in ascending order
RECURSIVE InnerFaces(_, _)
InnerFaces(cell, face) ==
  IF face > 3 THEN <<>>
  ELSE (IF at_boundary(cell, face) THEN <<>> ELSE <<face>>)
         \o InnerFaces(cell, face + 1)

\* lines 584-632: run_flooding on a process that owns the cells of the set
\* owned gives the number id to the cell and to what it reaches from the
\* cell, and returns the vector and its counter
RECURSIVE run_flooding(_, _, _, _)
RECURSIVE FloodEach(_, _, _, _)
run_flooding(cell, ids, owned, id) ==
  IF has_children(cell)
  THEN FloodEach(child_iterators(cell), [ids |-> ids, counter |-> 1], owned, id)
  ELSE IF cell \notin owned THEN [ids |-> ids, counter |-> 0]
  ELSE IF ids[cell] # invalid_particle_id THEN [ids |-> ids, counter |-> 0]
  ELSE IF solution[cell] = 0 THEN [ids |-> ids, counter |-> 0]
  ELSE LET faces == InnerFaces(cell, 0)
       IN FloodEach([i \in DOMAIN faces |-> neighbor(cell, faces[i])],
                    [ids |-> [ids EXCEPT ![cell] = id], counter |-> 1], owned, id)

\* the loops over the children (lines 593-595) and over the faces (lines
\* 622-629)
FloodEach(cells, acc, owned, id) ==
  IF cells = <<>> THEN acc
  ELSE LET res == run_flooding(Head(cells), acc.ids, owned, id)
       IN FloodEach(Tail(cells),
                    [ids |-> res.ids, counter |-> acc.counter + res.counter],
                    owned, id)

\* lines 809-820: the loop over the active cells, from a vector of invalid
\* entries and counter 0
RECURSIVE FloodingLoop(_, _, _)
FloodingLoop(cells, acc, owned) ==
  IF cells = <<>> THEN acc
  ELSE LET res == run_flooding(Head(cells), acc.ids, owned, acc.counter)
       IN FloodingLoop(Tail(cells),
                       [ids |-> res.ids,
                        counter |-> IF res.counter > 0 THEN acc.counter + 1
                                                       ELSE acc.counter],
                       owned)

Flooding(owned) ==
  FloodingLoop(active_cell_iterators,
               [ids |-> [cell \in ActiveCells |-> invalid_particle_id],
                counter |-> 0], owned)

\* the cells of rank r
LocallyOwned(r) == {cell \in ActiveCells : is_locally_owned(r, cell)}

\* step 1 of detect_grains on rank r
Flood(r) ==
  /\ pc[r] = "flood"
  /\ \E res \in {Flooding(LocallyOwned(r))} :
       /\ particle_ids' = [particle_ids EXCEPT ![r] = res.ids]
       /\ detect_grains' = [detect_grains EXCEPT ![r].counter = res.counter]
  /\ pc' = [pc EXCEPT ![r] = "exscan"]
  /\ UNCHANGED <<triangulation, tracker, input, connectivity, in_flight,
                 finished, entered, votes, input_sent, left_in, input_valid,
                 result>>

\* step 2, lines 824-828: MPI_Exscan returns on a rank when the lower ranks
\* have entered it; the ids of the rank are shifted by its offset
ShiftIds(r) ==
  /\ pc[r] = "exscan"
  /\ \A s \in Ranks : s < r => pc[s] # "flood"
  /\ \E off \in {Exscan([s \in Ranks |-> detect_grains[s].counter], r)} :
       /\ detect_grains' = [detect_grains EXCEPT ![r].offset = off]
       /\ particle_ids' =
            [particle_ids EXCEPT
               ![r] = [cell \in ActiveCells |->
                         IF particle_ids[r][cell] # invalid_particle_id
                         THEN particle_ids[r][cell] + off
                         ELSE invalid_particle_id]]
  /\ pc' = [pc EXCEPT ![r] = "ghosts"]
  /\ UNCHANGED <<triangulation, tracker, input, connectivity, in_flight,
                 finished, entered, votes, input_sent, left_in, input_valid,
                 result>>

\* the boxes of the cells: both ends along the strip and both ends across
Box(cell) ==
  IF Len(cell) = 1
  THEN [x0 |-> 2 * cell[1], x1 |-> 2 * cell[1] + 2, y0 |-> 0, y1 |-> 2]
  ELSE [x0 |-> 2 * cell[1] + (cell[2] % 2),
        x1 |-> 2 * cell[1] + (cell[2] % 2) + 1,
        y0 |-> cell[2] \div 2, y1 |-> (cell[2] \div 2) + 1]

\* two cells share a face: their boxes touch along a piece of a side
FaceAdjacent(a, b) ==
  LET A == Box(a)
      B == Box(b)
  IN \/ /\ A.x1 = B.x0 \/ B.x1 = A.x0
        /\ A.y0 < B.y1 /\ B.y0 < A.y1
     \/ /\ A.y1 = B.y0 \/ B.y1 = A.y0
        /\ A.x0 < B.x1 /\ B.x0 < A.x1

\* cell->is_ghost() on rank r: a cell of another rank at a cell of rank r
is_ghost(r, cell) ==
  /\ ~is_locally_owned(r, cell)
  /\ \E own \in ActiveCells : is_locally_owned(r, own) /\ FaceAdjacent(own, cell)

\* lines 849-885: the locally owned cells that the loop over the faces of a
\* ghost cell hands to add
LocalCellsAt(r, ghost_cell) ==
  LET faces == InnerFaces(ghost_cell, 0)
      behind(face) ==
        IF has_children(neighbor(ghost_cell, face))
        THEN {neighbor_child_on_subface(ghost_cell, face, subface) :
                subface \in 0..(n_subfaces - 1)}
        ELSE {neighbor(ghost_cell, face)}
  IN {local_cell \in UNION {behind(faces[i]) : i \in DOMAIN faces} :
        is_locally_owned(r, local_cell)}

\* lines 830-886: particle_ids.update_ghost_values() and local_connectiviy,
\* from the vector ids that holds the entries of the owners at ghost cells
local_connectiviy(r, ids) ==
  [i \in 1..detect_grains[r].counter |->
     {<<triangulation.subdomain_id[ghost_cell], ids[ghost_cell]>> :
        ghost_cell \in
          {g \in ActiveCells :
             /\ is_ghost(r, g)
             /\ ids[g] # invalid_particle_id
             /\ \E local_cell \in LocalCellsAt(r, g) :
                  ids[local_cell] = (i - 1) + detect_grains[r].offset}}]

\* step 3: update_ghost_values returns on a rank when the owners of its
\* ghost cells have shifted their ids; the rank then builds local_connectiviy
\* and calls perform_distributed_stitching with it
UpdateGhosts(r) ==
  /\ pc[r] = "ghosts"
  /\ \A g \in ActiveCells :
       is_ghost(r, g) => pc[triangulation.subdomain_id[g]] \notin {"flood", "exscan"}
  /\ \E ids \in {[cell \in ActiveCells |->
                    IF is_ghost(r, cell)
                    THEN particle_ids[triangulation.subdomain_id[cell]][cell]
                    ELSE particle_ids[r][cell]]} :
       /\ particle_ids' = [particle_ids EXCEPT ![r] = ids]
       /\ input' = [input EXCEPT ![r] = local_connectiviy(r, ids)]
       /\ connectivity' = [connectivity EXCEPT ![r] = local_connectiviy(r, ids)]
       /\ input_sent' = [input_sent EXCEPT ![r] = local_connectiviy(r, ids)]
       /\ result' = [result EXCEPT
                       ![r] = [i \in 1..detect_grains[r].counter |-> InvalidId]]
  /\ pc' = [pc EXCEPT ![r] = "build"]
  /\ UNCHANGED <<triangulation, detect_grains, tracker, in_flight, finished,
                 entered, votes, left_in, input_valid>>

\* the largest k with k * k <= n, between lo and hi
RECURSIVE SqrtBetween(_, _, _)
SqrtBetween(n, lo, hi) ==
  IF lo = hi THEN lo
  ELSE LET mid == (lo + hi + 1) \div 2
       IN IF mid * mid <= n THEN SqrtBetween(n, mid, hi)
                            ELSE SqrtBetween(n, lo, mid - 1)

\* the square root, rounded down to a whole number of steps
Sqrt(n) == SqrtBetween(n, 0, 8 * NumCoarse * Resolution)

\* a Point whose coordinates are the quotient 0.0 / 0.0
NaN == <<>>

\* cell->center() and cell->barycenter(), in steps: a coarse cell is
\* 4 * Resolution steps long
center(cell) ==
  <<(Box(cell).x0 + Box(cell).x1) * Resolution,
    (Box(cell).y0 + Box(cell).y1) * Resolution>>

\* cell->measure(), in units of the measure of a child
measure(cell) == (Box(cell).x1 - Box(cell).x0) * (Box(cell).y1 - Box(cell).y0)

\* cell->diameter(), in steps
diameter(cell) ==
  Sqrt((2 * (Box(cell).x1 - Box(cell).x0) * Resolution) ^ 2
         + (2 * (Box(cell).y1 - Box(cell).y0) * Resolution) ^ 2)

\* Point::distance, in steps
distance(p, q) == Sqrt((p[1] - q[1]) ^ 2 + (p[2] - q[2]) ^ 2)

RECURSIVE Sum(_, _)
Sum(f, S) ==
  IF S = {} THEN 0
  ELSE LET x == CHOOSE y \in S : TRUE IN f[x] + Sum(f, S \ {x})

\* local_to_global_particle_ids[particle_id - offset] for a cell of rank r
unique_id(r, cell) ==
  result[r][particle_ids[r][cell] - detect_grains[r].offset + 1]

\* the cells of rank r that belong to the particle i after stitching
CellsOfParticle(r, i) ==
  {cell \in LocallyOwned(r) :
     /\ particle_ids[r][cell] # invalid_particle_id
     /\ unique_id(r, cell) = i}

\* the ranks that have returned from perform_distributed_stitching
AfterStitching == {s \in Ranks : pc[s] \in {"done", "centers", "radii", "detected"}}

\* lines 896-909
n_particles ==
  IF \A s \in Ranks : Len(result[s]) = 0 THEN 0
  ELSE SetMax({0} \cup UNION {{result[s][i] : i \in DOMAIN result[s]} :
                                s \in Ranks}) + 1

\* lines 911-934: the measure of every particle on rank r and the sums of
\* the centers of its cells, weighted with their measures
LocalInfo(r) ==
  [i \in 0..(n_particles - 1) |->
     <<Sum([cell \in ActiveCells |-> measure(cell)], CellsOfParticle(r, i)),
       Sum([cell \in ActiveCells |-> center(cell)[1] * measure(cell)],
           CellsOfParticle(r, i)),
       Sum([cell \in ActiveCells |-> center(cell)[2] * measure(cell)],
           CellsOfParticle(r, i))>>]

\* lines 896-934: MPI::sum and MPI::max return when every rank has entered
\* them; the rank then adds up its cells
ParticleInfo(r) ==
  /\ pc[r] = "done"
  /\ AfterStitching = Ranks
  /\ detect_grains' = [detect_grains EXCEPT
                         ![r].n_particles = n_particles,
                         ![r].particle_info = LocalInfo(r)]
  /\ pc' = [pc EXCEPT ![r] = "centers"]
  /\ UNCHANGED <<triangulation, particle_ids, tracker, input, connectivity,
                 in_flight, finished, entered, votes, input_sent, left_in,
                 input_valid, result>>

\* MPI_Reduce with MPI_SUM and the root 0 (lines 936-944): the buffer of the
\* root receives the sums over all ranks, the buffer of another rank is
\* left as it is
ReduceSum(buffer, r) ==
  IF r # 0 THEN buffer[r]
  ELSE [i \in DOMAIN buffer[0] |->
          [d \in DOMAIN buffer[0][i] |->
             Sum([s \in Ranks |-> buffer[s][i][d]], Ranks)]]

\* MPI_Reduce with MPI_MAX and the root 0 (lines 986-994)
ReduceMax(buffer, r) ==
  IF r # 0 THEN buffer[r]
  ELSE [i \in DOMAIN buffer[0] |->
          [d \in DOMAIN buffer[0][i] |->
             SetMax({buffer[s][i][d] : s \in Ranks})]]

\* lines 946-957: the quotients of the sums and the measure
Centers(info) ==
  [i \in DOMAIN info |->
     IF info[i][1] = 0 THEN NaN
     ELSE <<info[i][2] \div info[i][1], info[i][3] \div info[i][1]>>]

\* lines 959-984: the largest distance of a cell of rank r from the center
\* of its particle plus half the diameter of the cell, 0 without a cell
LocalRadii(r, centers) ==
  [i \in DOMAIN centers |->
     <<SetMax({0} \cup {distance(centers[i], center(cell))
                          + diameter(cell) \div 2 :
                            cell \in CellsOfParticle(r, i)})>>]

\* lines 936-984: the root receives the sums when every rank has handed its
\* sums to MPI_Reduce; every rank computes the centers from its buffer and
\* the radii of its cells about these centers
ParticleCenters(r) ==
  /\ pc[r] = "centers"
  /\ r = 0 => \A s \in Ranks : pc[s] # "done"
  /\ \E info \in {ReduceSum([s \in Ranks |-> detect_grains[s].particle_info], r)} :
       detect_grains' = [detect_grains EXCEPT
                           ![r].particle_info = info,
                           ![r].particle_centers = Centers(info),
                           ![r].particle_radii = LocalRadii(r, Centers(info))]
  /\ pc' = [pc EXCEPT ![r] = "radii"]
  /\ UNCHANGED <<triangulation, particle_ids, tracker, input, connectivity,
                 in_flight, finished, entered, votes, input_sent, left_in,
                 input_valid, result>>

\* lines 996-1001: the entry of a cell with a particle becomes the number
\* its owner has for the particle after stitching, on the owner and, with
\* update_ghost_values, where the cell is a ghost cell
GlobalIds(r) ==
  [cell \in ActiveCells |->
     LET o == triangulation.subdomain_id[cell]
     IN IF (o = r \/ is_ghost(r, cell))
           /\ particle_ids[o][cell] # invalid_particle_id
        THEN result[o][Flooding(LocallyOwned(o)).ids[cell] + 1]
        ELSE invalid_particle_id]

\* lines 1003-1116 on a mesh without periodic faces: every particle becomes
\* the only segment of a grain of its own
NewGrains(centers, radii) ==
  [i \in DOMAIN centers |-> [center |-> centers[i], radius |-> radii[i][1]]]

\* lines 986-1116: the root receives the largest radii when every rank has
\* handed its radii to MPI_Reduce; the rank stores the numbers of the
\* particles in particle_ids and builds the grains of the order parameter
ParticleRadii(r) ==
  /\ pc[r] = "radii"
  /\ r = 0 => \A s \in Ranks : pc[s] \in {"radii", "detected"}
  /\ \E radii \in {ReduceMax([s \in Ranks |-> detect_grains[s].particle_radii], r)} :
       detect_grains' = [detect_grains EXCEPT
                           ![r].particle_radii = radii,
                           ![r].new_grains =
                              NewGrains(detect_grains[r].particle_centers, radii)]
  /\ particle_ids' = [particle_ids EXCEPT ![r] = GlobalIds(r)]
  /\ pc' = [pc EXCEPT ![r] = "detected"]
  /\ UNCHANGED <<triangulation, tracker, input, connectivity, in_flight,
                 finished, entered, votes, input_sent, left_in, input_valid,
                 result>>

\* the ways to give the n active cells to the ranks: every rank owns a run
\* of consecutive cells, in the order of the ranks
Partitionings(n) ==
  {f \in [1..n -> Ranks] : \A i, j \in 1..n : i < j => f[i] <= f[j]}

\* a tracker that was constructed, a mesh with at most MaxRefined refined
\* cells, a field of one block with values from V, and every rank at the
\* start of the loop body of detect_grains
DetectionStart(V) ==
  /\ grains = EmptyMap
  /\ old_grains = EmptyMap
  /\ active_order_parameters = {}
  /\ last = NoCall
  /\ pre = NoPre
  /\ retired = {}
  /\ remapped = NoRemap
  /\ greedy_init = FALSE
  /\ allow_new_grains = FALSE
  /\ max_order_parameters_num = 1
  /\ n_order_params = 1
  /\ steps_left = 0
  /\ \E refined \in {S \in SUBSET CoarseCells : Cardinality(S) <= MaxRefined} :
       \E f \in Partitionings(Len(ActiveFrom(refined, 0))) :
         triangulation =
           [refined |-> refined,
            subdomain_id |->
              [cell \in {ActiveFrom(refined, 0)[i] :
                           i \in DOMAIN ActiveFrom(refined, 0)} |->
                 f[CHOOSE i \in DOMAIN ActiveFrom(refined, 0) :
                     ActiveFrom(refined, 0)[i] = cell]]]
  /\ solution \in [ActiveCells -> V]
  /\ particle_ids = [r \in Ranks |-> [cell \in ActiveCells |-> invalid_particle_id]]
  /\ detect_grains =
       [r \in Ranks |->
          [counter |-> 0, offset |-> 0, n_particles |-> 0,
           particle_info |-> <<>>, particle_centers |-> <<>>,
           particle_radii |-> <<>>, new_grains |-> <<>>]]
  /\ input = [r \in Ranks |-> <<>>]
  /\ connectivity = input
  /\ input_sent = input
  /\ in_flight = {}
  /\ pc = [r \in Ranks |-> "flood"]
  /\ finished = [r \in Ranks |-> FALSE]
  /\ entered = [r \in Ranks |-> 0]
  /\ votes = [r \in Ranks |-> FALSE]
  /\ left_in = [r \in Ranks |-> 0]
  /\ input_valid = [r \in Ranks |-> <<>>]
  /\ result = [r \in Ranks |-> <<>>]

DoFlood == \E r \in Ranks : Flood(r)
DoShiftIds == \E r \in Ranks : ShiftIds(r)
DoUpdateGhosts == \E r \in Ranks : UpdateGhosts(r)
DoParticleInfo == \E r \in Ranks : ParticleInfo(r)
DoParticleCenters == \E r \in Ranks : ParticleCenters(r)
DoParticleRadii == \E r \in Ranks : ParticleRadii(r)

\* steps 1 and 2 of detect_grains on fields with all values
InitFlooding == DetectionStart(0..MaxFieldValue)

NextFlooding ==
  \/ DoFlood
  \/ DoShiftIds

SpecFlooding == InitFlooding /\ [][NextFlooding]_vars

\* detect_grains on fields whose cells hold 0 or the largest value
InitDetection == DetectionStart({0, MaxFieldValue})

NextDetection ==
  \/ DoFlood
  \/ DoShiftIds
  \/ DoUpdateGhosts
  \/ NextStitching
  \/ DoParticleInfo
  \/ DoParticleCenters
  \/ DoParticleRadii

SpecDetection == InitDetection /\ [][NextDetection]_vars

(***************************************************************************)
(* Properties of track() and initial_setup().                              *)
(***************************************************************************)
\* the mutual distance of two grains is smaller than the sum of their
\* buffer distances, buffer_distance_ratio * max_radius each
CloserThanBuffers(g, h) ==
  LET rg == CHOOSE x \in {sg.r : sg \in {g.segments[i] : i \in DOMAIN g.segments}} :
              \A i \in DOMAIN g.segments : g.segments[i].r <= x
      rh == CHOOSE x \in {sg.r : sg \in {h.segments[i] : i \in DOMAIN h.segments}} :
              \A i \in DOMAIN h.segments : h.segments[i].r <= x
  IN \E i \in DOMAIN g.segments, j \in DOMAIN h.segments :
       BufferRatioDen *
         (Abs(g.segments[i].c - h.segments[j].c)
            - g.segments[i].r - h.segments[j].r)
       < BufferRatioNum * (rg + rh)

UsedChannels == {grains[k].order_parameter_id : k \in DOMAIN grains}

\* C1: after track() or initial_setup() has returned, no two distinct
\* current grains that are closer than the sum of their buffer distances
\* have the same order_parameter_id.
C1_CloseGrainsOnDistinctChannels ==
  Returned =>
    \A a, b \in DOMAIN grains :
      (a # b /\ CloserThanBuffers(grains[a], grains[b]))
        => grains[a].order_parameter_id # grains[b].order_parameter_id

\* two close grains were detected on one order parameter and the call
\* returned with the two on different order parameters
C1_Witness ==
  /\ Returned
  /\ \E a, b \in DOMAIN grains :
       /\ a # b
       /\ CloserThanBuffers(grains[a], grains[b])
       /\ grains[a].old_order_parameter_id = grains[b].old_order_parameter_id
       /\ grains[a].order_parameter_id # grains[b].order_parameter_id

\* C2: after track() or initial_setup() has returned, the number of
\* distinct order_parameter_id values of the current grains is at most
\* max_order_parameters_num, whether or not the coloring ran.
C2_ChannelsWithinBudget ==
  Returned => Cardinality(UsedChannels) <= max_order_parameters_num

\* C3: over a sequence of track() calls with allow_new_grains, a grain id
\* that belonged to a grain which disappeared in an earlier call is never
\* minted for a new grain (stated for the calls that start with at least one
\* old grain, where the numberer is defined).
C3_RetiredIdNeverMinted ==
  (TrackReturned /\ allow_new_grains /\ DOMAIN old_grains # {})
    => last.minted \cap retired = {}

\* an old grain and a current grain have the same segments and the grain was
\* detected on the order parameter of the old grain
SameGrain(o, g) ==
  /\ o.segments = g.segments
  /\ o.order_parameter_id = g.old_order_parameter_id

\* C4, as claimed: after track() has returned, a grain whose segments are
\* those of a grain of the previous set (the only such grain on both sides)
\* has the grain id of that grain.
C4_IdentityKept ==
  TrackReturned =>
    \A i \in DOMAIN old_grains, k \in DOMAIN grains :
      ( /\ SameGrain(old_grains[i], grains[k])
        /\ \A j \in DOMAIN old_grains :
             SameGrain(old_grains[j], grains[k]) => j = i
        /\ \A m \in DOMAIN grains :
             SameGrain(old_grains[i], grains[m]) => m = k )
      => k = i

\* a segment of another old grain is centered where a segment of g is
CenterTie(i, g) ==
  \E j \in DOMAIN old_grains \ {i} :
    \E a \in DOMAIN old_grains[j].segments, b \in DOMAIN g.segments :
      old_grains[j].segments[a].c = g.segments[b].c

\* C4, amended: after track() has returned, a grain whose segments are those
\* of an old grain has the grain id of that grain, unless another new grain
\* has taken that id in this call or another old grain has a segment
\* centered at one of its segment centers.
C4_IdentityKeptUnlessClaimed ==
  TrackReturned =>
    \A i \in DOMAIN old_grains, k \in DOMAIN grains :
      SameGrain(old_grains[i], grains[k])
        => \/ k = i
           \/ i \in DOMAIN grains
           \/ CenterTie(i, grains[k])

\* an unchanged grain kept its id although another old grain lies within
\* its radius
C4_Witness ==
  /\ TrackReturned
  /\ \E i \in DOMAIN old_grains :
       /\ i \in DOMAIN grains
       /\ SameGrain(old_grains[i], grains[i])
       /\ ~CenterTie(i, grains[i])
       /\ \E j \in DOMAIN old_grains \ {i} :
            \E a \in DOMAIN old_grains[j].segments,
               b \in DOMAIN grains[i].segments :
              Abs(old_grains[j].segments[a].c - grains[i].segments[b].c)
                < grains[i].segments[b].r

\* a segment of the old grain o is centered closer to a segment of g than
\* the radius of that segment
WithinRadius(o, g) ==
  \E a \in DOMAIN o.segments, b \in DOMAIN g.segments :
    Abs(o.segments[a].c - g.segments[b].c) < g.segments[b].r

\* C5: after track() has returned, the grain ids of the map are pairwise
\* distinct (every grain carries the key it is stored under), no old grain
\* id was handed to two new grains, and the map holds as many grains as
\* were detected.
C5_EveryDetectedGrainPresent ==
  TrackReturned =>
    /\ Cardinality(DOMAIN grains) = last.n_detected
    /\ \A k \in DOMAIN grains : grains[k].grain_id = k
    /\ DOMAIN grains = last.matched \cup last.minted
    /\ last.matched \cap last.minted = {}
    /\ Cardinality(last.matched) + Cardinality(last.minted) = last.n_detected
    /\ last.matched \cap last.grains_candidates = {}

\* two grains were detected within reach of one old grain; one of them took
\* its id and the other did not
C5_Witness ==
  /\ TrackReturned
  /\ \E i \in last.matched :
       \E a, b \in DOMAIN grains :
         /\ a # b
         /\ WithinRadius(old_grains[i], grains[a])
         /\ WithinRadius(old_grains[i], grains[b])

FatalError == last.outcome \in {"unmatched", "op_mismatch", "capacity"}

\* C6: when track() or initial_setup() has failed with a fatal error, grains,
\* old_grains and the active order parameters are those of before the call.
C6_NoPartialCommit ==
  (pre.taken /\ FatalError) =>
    /\ grains = pre.grains
    /\ old_grains = pre.old_grains
    /\ active_order_parameters = pre.active_order_parameters

\* C7: in track(), a new grain with no candidate old grain within the radius
\* of one of its segments makes the call throw when allow_new_grains is
\* false; when it is true the grain gets a minted id that is no id of
\* old_grains and no id given earlier in the call.
C7_UnmatchedGrain ==
  /\ last.outcome = "unmatched" => (last.kind = "track" /\ ~allow_new_grains)
  /\ (last.kind = "track" /\ ~allow_new_grains) => last.minted = {}
  /\ (TrackReturned /\ ~allow_new_grains) =>
       \A k \in DOMAIN grains :
         k \in DOMAIN old_grains /\ WithinRadius(old_grains[k], grains[k])
  /\ (TrackReturned /\ allow_new_grains) =>
       /\ \A k \in DOMAIN grains :
            (\A i \in DOMAIN old_grains : ~WithinRadius(old_grains[i], grains[k]))
              => k \in last.minted
       /\ \A k \in last.minted :
            \A i \in DOMAIN old_grains :
              WithinRadius(old_grains[i], grains[k]) => i \in last.matched
       /\ last.minted \cap DOMAIN old_grains = {}
       /\ last.minted \cap last.matched = {}
       /\ Cardinality(last.minted) =
            Cardinality(DOMAIN grains) - Cardinality(last.matched)

\* a grain appeared next to grains that kept their ids, and got a minted id
C7_Witness ==
  /\ TrackReturned
  /\ allow_new_grains
  /\ last.minted # {}
  /\ last.matched # {}

\* C8: track() throws when a new grain is matched to an old grain whose
\* order_parameter_id is not the order parameter the new grain was detected
\* on, and that old grain is still a candidate and is not in the new map; in
\* a call that returned, every matched grain was detected on the order
\* parameter of its old grain.
C8_OrderParameterMismatch ==
  /\ last.outcome = "op_mismatch" =>
       /\ last.kind = "track"
       /\ last.thrown_for \in DOMAIN old_grains
       /\ last.thrown_for \in last.grains_candidates
       /\ last.thrown_for \notin last.matched
       /\ last.thrown_for \notin DOMAIN grains
  /\ TrackReturned =>
       \A k \in last.matched :
         grains[k].old_order_parameter_id = old_grains[k].order_parameter_id

\* a grain was detected at the place of an old grain on another order
\* parameter and the call threw
C8_Witness ==
  /\ last.kind = "track"
  /\ last.outcome = "op_mismatch"
  /\ last.thrown_for \in DOMAIN old_grains

\* C9: when reassign_grains runs the coloring and the coloring uses more
\* colors than max_order_parameters_num, the call fails; a call that ran
\* the coloring and returned uses at most max_order_parameters_num order
\* parameters.
C9_CapacityFailure ==
  /\ (last.overlap_detected /\ last.n_colors > max_order_parameters_num)
       => last.outcome = "capacity"
  /\ (Returned /\ last.overlap_detected)
       => Cardinality(UsedChannels) <= max_order_parameters_num
  /\ last.outcome = "capacity" =>
       (last.overlap_detected /\ last.n_colors > max_order_parameters_num)

\* the coloring ran and needed more colors than the tracker may use
C9_Witness ==
  /\ last.kind \in {"track", "initial_setup"}
  /\ last.overlap_detected
  /\ last.n_colors > max_order_parameters_num
  /\ last.outcome = "capacity"

(***************************************************************************)
(* Properties of remap().                                                  *)
(***************************************************************************)
\* the sum of the values of the container f over a set of <<block, cell>>
RECURSIVE SumOver(_, _)
SumOver(f, P) ==
  IF P = {} THEN 0
  ELSE LET pr == CHOOSE q \in P : TRUE
       IN f[pr[1]][pr[2]] + SumOver(f, P \ {pr})

\* the sum of the values of all blocks over the cells of the zone of a grain
ZoneSum(f, grain) == SumOver(f, Channels \X Zone(grain))

\* the container as it entered remap(), with the zeroing for the
\* disappeared grains done
BeforeWithoutDisappeared ==
  CleanDisappeared([solution |-> remapped.before, log |-> <<>>],
                   SortedSeq(disappered_grains(old_grains, grains)),
                   old_grains).solution

\* C10: for every current grain the sum of the values of the container over
\* the cells of the grain's zone, all order parameters together, is after
\* remap() what it was before, the values zeroed for disappeared grains
\* left out.
C10_ConservationUnderRemap ==
  remapped.done =>
    \A k \in DOMAIN grains :
      ZoneSum(solution, grains[k]) = ZoneSum(BeforeWithoutDisappeared, grains[k])

\* the grains remap() builds a remapping for
MovedGrains ==
  {k \in DOMAIN grains :
     grains[k].order_parameter_id # grains[k].old_order_parameter_id}

\* C11, as claimed: after remap() the block of the old order parameter of
\* every moved grain is zero at every cell of the zone of the grain.
C11_OldChannelZero ==
  remapped.done =>
    \A k \in MovedGrains :
      \A x \in Zone(grains[k]) :
        solution[grains[k].old_order_parameter_id][x] = 0

\* another grain was moved into the order parameter op and the cell x lies
\* in its zone
MovedInto(k, op, x) ==
  \E j \in MovedGrains \ {k} :
    grains[j].order_parameter_id = op /\ x \in Zone(grains[j])

\* C11, amended: after remap() the block of the old order parameter of every
\* moved grain is zero at every cell of the zone of the grain, except at the
\* cells that lie in the zone of another grain moved into that order
\* parameter.
C11_OldChannelZeroUnlessRefilled ==
  remapped.done =>
    \A k \in MovedGrains :
      \A x \in Zone(grains[k]) :
        \/ solution[grains[k].old_order_parameter_id][x] = 0
        \/ MovedInto(k, grains[k].old_order_parameter_id, x)

\* a moved grain whose old block held a value in its zone, at a cell no
\* other grain was moved to, and holds none after remap()
C11_Witness ==
  /\ remapped.done
  /\ \E k \in MovedGrains :
       \E x \in Zone(grains[k]) :
         /\ remapped.before[grains[k].old_order_parameter_id][x] # 0
         /\ ~MovedInto(k, grains[k].old_order_parameter_id, x)
         /\ solution[grains[k].old_order_parameter_id][x] = 0
         /\ solution[grains[k].order_parameter_id][x] # 0

\* the grains the log of remap() reports as disappeared
LoggedDisappeared ==
  {remapped.log[i].grain_id :
     i \in {j \in DOMAIN remapped.log : remapped.log[j].what = "disappeared"}}

\* the cell x of block op lies in the zone of a grain of old_grains that is
\* not in grains and had the order parameter op
InDisappearedZone(op, x) ==
  \E d \in DOMAIN old_grains \ DOMAIN grains :
    /\ old_grains[d].order_parameter_id = op
    /\ \E i \in DOMAIN old_grains[d].segments :
         2 * Abs(x - old_grains[d].segments[i].c)
           < 2 * old_grains[d].segments[i].r
               + Max(0, old_grains[d].distance_to_nearest_neighbor)

\* C12: remap() takes as disappeared exactly the grains of old_grains whose
\* id is not in grains; its first step sets the block of the order parameter
\* of each of them to zero at the cells within radius + transfer_buffer of
\* one of its segments and changes no other value.
C12_DisappearedZeroed ==
  remapped.done =>
    /\ LoggedDisappeared = DOMAIN old_grains \ DOMAIN grains
    /\ \A op \in Channels, x \in Cells :
         remapped.cleaned[op][x] =
           IF InDisappearedZone(op, x) THEN 0 ELSE remapped.before[op][x]

\* a grain disappeared next to a grain that stayed: a value in its zone was
\* zeroed and a value of the same block outside its zone was kept
C12_Witness ==
  /\ remapped.done
  /\ DOMAIN grains \cap DOMAIN old_grains # {}
  /\ \E op \in Channels, x, y \in Cells :
       /\ InDisappearedZone(op, x)
       /\ remapped.before[op][x] # 0
       /\ remapped.cleaned[op][x] = 0
       /\ ~InDisappearedZone(op, y)
       /\ remapped.cleaned[op][y] # 0

\* the grains were moved round one cycle through all CycleLength order
\* parameters: every order parameter is left by one grain and entered by
\* one grain, and no grain stays
IsCycle ==
  /\ Cardinality(DOMAIN grains) = CycleLength
  /\ MovedGrains = DOMAIN grains
  /\ {grains[k].old_order_parameter_id : k \in DOMAIN grains}
       = 0..(CycleLength - 1)
  /\ {grains[k].order_parameter_id : k \in DOMAIN grains}
       = 0..(CycleLength - 1)

\* the order parameter whose values the permutation moves to op
SourceOf(op) ==
  grains[CHOOSE k \in DOMAIN grains : grains[k].order_parameter_id = op]
    .old_order_parameter_id

\* the container with the permutation of the order parameters applied to
\* the values it had when remap() was entered
PermutedDirectly ==
  [op \in Channels |-> [x \in Cells |-> remapped.before[SourceOf(op)][x]]]

\* the grains a log entry of the kind what was written for
LoggedAs(what) ==
  {remapped.log[i].grain_id :
     i \in {j \in DOMAIN remapped.log : remapped.log[j].what = what}}

CloseOnChannel(gm) ==
  \E k, j \in DOMAIN gm :
    /\ k # j
    /\ gm[k].order_parameter_id = gm[j].order_parameter_id
    /\ BufferOverlap(gm[k], gm[j])

\* track() ran on the field the previous call left, and no two grains with
\* the same order parameter are closer than their buffers
UnchangedStep ==
  /\ last.kind = "track"
  /\ last.same_field
  /\ DOMAIN old_grains # {}
  /\ ~CloseOnChannel(old_grains)

SharedCenter(gm) ==
  \E k, j \in DOMAIN gm :
    /\ k # j
    /\ \E a \in DOMAIN gm[k].segments, b \in DOMAIN gm[j].segments :
         gm[k].segments[a].c = gm[j].segments[b].c

Collided(k, j) ==
  /\ k # j
  /\ grains[k].old_order_parameter_id = grains[j].old_order_parameter_id
  /\ BufferOverlap(grains[k], grains[j])

\* the grain k was moved to another order parameter by the call
Moved(k) == grains[k].order_parameter_id # grains[k].old_order_parameter_id

ChannelsOf(gm) == {gm[k].order_parameter_id : k \in DOMAIN gm}

DetectedChannelsOf(gm) == {gm[k].old_order_parameter_id : k \in DOMAIN gm}

get_active_order_parameters == active_order_parameters

\* C17: after track() or initial_setup() has returned, the active order
\* parameters are 0, ..., K-1 for some K, and
\* get_active_order_parameters() is the set of the order_parameter_id of
\* the grains.
C17_ActiveIsDensePrefix ==
  Returned =>
    /\ get_active_order_parameters
         = 0..(Cardinality(get_active_order_parameters) - 1)
    /\ get_active_order_parameters = ChannelsOf(grains)

\* track() returned after a grain disappeared from order parameter 0 and a
\* grain on order parameter 1 stayed: the gap was closed
C17_Witness ==
  /\ TrackReturned
  /\ \E d \in DOMAIN old_grains \ DOMAIN grains :
       old_grains[d].order_parameter_id = 0
  /\ \E k \in DOMAIN grains \cap DOMAIN old_grains :
       /\ old_grains[k].order_parameter_id = 1
       /\ grains[k].old_order_parameter_id = 1
       /\ grains[k].order_parameter_id = 0
  /\ get_active_order_parameters = {0}
  /\ last.grains_reassigned

\* every rank has returned from perform_distributed_stitching
AllDone == \A r \in Ranks : pc[r] = "done"

\* the particles of all ranks
Particles ==
  UNION {{<<r, (i - 1) + offset(r)>> : i \in DOMAIN input[r]} : r \in Ranks}

\* the particles that touch the particle p across a partition boundary
Touching(p) == connectivity[p[1]][p[2] - offset(p[1]) + 1]

\* the particles joined to a particle of S by a chain of touching particles
RECURSIVE Reach(_)
Reach(S) ==
  LET T == S \cup UNION {Touching(x) : x \in S}
  IN IF T = S THEN S ELSE Reach(T)

\* the entry of the returned vector for the particle p
ResultOf(p) == result[p[1]][p[2] - offset(p[1]) + 1]

\* C18: when perform_distributed_stitching has returned on every rank, two
\* particles have the same entry in the returned vectors exactly when a
\* chain of particles touching across partition boundaries joins them.
C18_SameIdIffConnected ==
  AllDone =>
    \A p, q \in Particles :
      (ResultOf(p) = ResultOf(q)) <=> (q \in Reach({p}))

\* two particles of one rank that are joined only through a particle of
\* another rank have the same id, and a third particle has another id
C18_Witness ==
  /\ AllDone
  /\ \E p, q, x \in Particles :
       /\ p # q
       /\ p[1] = q[1]
       /\ ResultOf(p) = ResultOf(q)
       /\ Touching(p) \cap Touching(q) # {}
       /\ ResultOf(x) # ResultOf(p)
       /\ ResultOf(x) # InvalidId

\* the first particles of the groups of touching particles
FirstParticles == {First(Reach({x})) : x \in Particles}

\* the number of groups whose first particle is before that of p
NumberOfGroup(p) ==
  Cardinality({f \in FirstParticles : TupleLess(f, First(Reach({p})))})

\* C19: the vectors perform_distributed_stitching returns are fixed by the
\* connectivity it was called with, whatever the order in which the
\* messages were processed: every particle has the number of its group,
\* the groups counted in the order of their first particles.
C19_ResultFixedByConnectivity ==
  AllDone => \A p \in Particles : ResultOf(p) = NumberOfGroup(p)

\* a run in which a rank had messages of two ranks to process in one round
\* and the loop took more than one round
C19_Witness ==
  /\ AllDone
  /\ \E p \in Particles :
       /\ \E q1, q2 \in Touching(p) : q1[1] # q2[1]
       /\ ResultOf(p) = NumberOfGroup(p)
       /\ left_in[p[1]] >= 2
  /\ Cardinality(FirstParticles) >= 2

\* a rank can take a step
CanStep(r) ==
  \/ ENABLED BuildAndSend(r)
  \/ ENABLED Process(r)
  \/ ENABLED EnterSum(r)
  \/ ENABLED LeaveSum(r)
  \/ ENABLED Notify(r)
  \/ ENABLED Store(r)
  \/ ENABLED EnterBarrier(r)
  \/ ENABLED Return(r)

\* C20: as long as a rank has not returned some rank can take a step; the
\* ranks that have left the loop left it in the same round, no rank is in
\* or starts a later round, and in that round no input of a rank changed.
C20_LoopLeftTogether ==
  /\ ~AllDone => \E r \in Ranks : CanStep(r)
  /\ \A r \in OutOfLoop :
       \A s \in Ranks :
         /\ s \in OutOfLoop => left_in[s] = left_in[r]
         /\ entered[s] <= left_in[r]
         /\ ~(pc[s] \in {"build", "exchange"} /\ entered[s] = left_in[r])
         /\ entered[s] = left_in[r] => input[s] = input_sent[s]

\* a rank whose own input did not change in a round starts another round
\* because the input of another rank changed in that round
C20_Witness ==
  \E r, s \in Ranks :
    /\ pc[r] = "build"
    /\ entered[r] >= 1
    /\ votes[r]
    /\ entered[s] = entered[r]
    /\ ~votes[s]

\* the particles joined to p by a chain of at most k touching pairs
\* the number of steps along touching particles after which the set B, grown
\* from one particle, stops growing: the largest distance from that particle
RECURSIVE Eccentricity(_, _)
Eccentricity(B, k) ==
  LET T == B \cup UNION {Touching(x) : x \in B}
  IN IF T = B THEN k ELSE Eccentricity(T, k + 1)

Diameter == SetMax({0} \cup {Eccentricity({p}, 0) : p \in Particles})

\* C21: no rank takes part in more rounds of the loop than the diameter of
\* the connectivity graph plus one, and every rank leaves the loop.
C21_LoopEndsWithinDiameter ==
  /\ [](\A r \in Ranks : entered[r] <= Diameter + 1)
  /\ <>(OutOfLoop = Ranks)

\* every rank has left the loop in its third round, on a graph whose longest
\* shortest chain has three touching pairs
C21_Witness ==
  /\ OutOfLoop = Ranks
  /\ Diameter = 3
  /\ \A r \in Ranks : left_in[r] = 3

(***************************************************************************)
(* Properties of detect_grains.                                            *)
(***************************************************************************)

\* every rank has reached the end of the loop body of detect_grains
Detected == \A r \in Ranks : pc[r] = "detected"

\* the entry of a cell in the vector of its owner
GlobalParticle(cell) == particle_ids[triangulation.subdomain_id[cell]][cell]

\* the vector of a single process that owns every cell, after its flooding
SerialIds == Flooding(ActiveCells).ids

\* C22: when every rank has detected its grains, the cells with a particle
\* are those a single process finds on the same mesh and field, and two of
\* them belong to the same particle exactly when they do for the single
\* process.
C22_PartitionInvariant ==
  Detected =>
    \A a, b \in ActiveCells :
      /\ GlobalParticle(a) = invalid_particle_id
           <=> SerialIds[a] = invalid_particle_id
      /\ GlobalParticle(a) = GlobalParticle(b) <=> SerialIds[a] = SerialIds[b]

\* the same on a mesh without refined cells
C22_PartitionInvariantUnrefined ==
  Detected /\ triangulation.refined = {} => C22_PartitionInvariant

\* the ranks that have flooded their cells
Flooded == {r \in Ranks : pc[r] # "flood"}

\* C28: after the flooding of a rank no cell whose value does not exceed
\* threshold_lower has a particle id in the vector of the rank.
C28_BelowThresholdNotLabeled ==
  \A r \in Flooded : \A cell \in ActiveCells :
    solution[cell] <= threshold_lower
      => particle_ids[r][cell] = invalid_particle_id

\* the cells of rank r above the threshold that a chain of face-adjacent
\* cells of rank r above the threshold joins to a cell of S
RECURSIVE LocalChain(_, _)
LocalChain(r, S) ==
  LET T == S \cup {b \in LocallyOwned(r) :
                     /\ solution[b] > threshold_lower
                     /\ \E a \in S : FaceAdjacent(a, b)}
  IN IF T = S THEN S ELSE LocalChain(r, T)

\* the ranks whose vector holds the local particle ids of their flooding
HoldsLocalIds == {r \in Ranks : pc[r] \in {"exscan", "ghosts"}}

\* C29: after the flooding of a rank two of its cells have the same particle
\* id exactly when both are above the threshold and a chain of face-adjacent
\* cells of the rank above the threshold joins them.
C29_SameIdIffLocallyJoined ==
  \A r \in HoldsLocalIds : \A a, b \in LocallyOwned(r) :
    (/\ particle_ids[r][a] # invalid_particle_id
     /\ particle_ids[r][a] = particle_ids[r][b])
      <=> (solution[a] > threshold_lower /\ b \in LocalChain(r, {a}))

\* the same on a mesh without refined cells
C29_SameIdIffLocallyJoinedUnrefined ==
  triangulation.refined = {} => C29_SameIdIffLocallyJoined

\* the cells of the particle i on all ranks, when every rank has detected
\* its grains
AllCellsOfParticle(i) == {cell \in ActiveCells : GlobalParticle(cell) = i}

\* the mean of the centers of the cells of the particle i on all ranks,
\* weighted with their measures
GlobalCenter(i) ==
  LET m == Sum([cell \in ActiveCells |-> measure(cell)], AllCellsOfParticle(i))
      x == Sum([cell \in ActiveCells |-> center(cell)[1] * measure(cell)],
               AllCellsOfParticle(i))
      y == Sum([cell \in ActiveCells |-> center(cell)[2] * measure(cell)],
               AllCellsOfParticle(i))
  IN <<x \div m, y \div m>>

\* the largest distance of a cell of the particle i on any rank from the
\* global center, plus half the diameter of the cell
GlobalRadius(i) ==
  SetMax({distance(GlobalCenter(i), center(cell)) + diameter(cell) \div 2 :
            cell \in AllCellsOfParticle(i)})

\* C30: when every rank has detected its grains, every rank holds for every
\* particle the center and the radius reduced over the cells of all ranks.
C30_SameCentersAndRadii ==
  Detected =>
    \A r \in Ranks : \A i \in DOMAIN detect_grains[r].new_grains :
      /\ detect_grains[r].new_grains[i].center = GlobalCenter(i)
      /\ detect_grains[r].new_grains[i].radius = GlobalRadius(i)

\* the same for the root of the reductions only
C30_RootHoldsReducedValues ==
  Detected =>
    \A i \in DOMAIN detect_grains[0].new_grains :
      /\ detect_grains[0].new_grains[i].center = GlobalCenter(i)
      /\ detect_grains[0].new_grains[i].radius = GlobalRadius(i)

(***************************************************************************)
(* Properties of the matching loop of track().                             *)
(***************************************************************************)

\* the matching loop of the last call of track() ran to its end
MatchingDone == last.kind = "track" /\ Len(last.assigned) = Len(last.detected)

\* the old grains no earlier new grain of the call has claimed when the
\* i-th new grain is matched
Unclaimed(i) == DOMAIN old_grains \ {last.assigned[j] : j \in 1..(i - 1)}

\* the distances between a segment of the i-th new grain and a segment of
\* the old grain g that are smaller than the radius of the new segment
ReachDistances(i, g) ==
  {PointDistance(last.detected[i].segments[a].c, old_grains[g].segments[b].c) :
     <<a, b>> \in
       {ab \in (DOMAIN last.detected[i].segments) \X (DOMAIN old_grains[g].segments) :
          PointDistance(last.detected[i].segments[ab[1]].c,
                        old_grains[g].segments[ab[2]].c)
            < last.detected[i].segments[ab[1]].r}}

\* C23: in a call of track() every new grain takes the id of an unclaimed
\* old grain with the smallest distance between a new and an old segment
\* center among the distances below the radius of the new segment, and an
\* id of no old grain when no unclaimed old grain has such a distance.
C23_TakesClosestUnclaimed ==
  MatchingDone =>
    \A i \in DOMAIN last.detected :
      LET D == UNION {ReachDistances(i, g) : g \in Unclaimed(i)}
      IN IF D = {}
         THEN last.assigned[i] \notin DOMAIN old_grains
         ELSE /\ last.assigned[i] \in Unclaimed(i)
              /\ SetMin(D) \in ReachDistances(i, last.assigned[i])

\* a new grain had two unclaimed old grains within reach at different
\* distances and took the closer one, and a later new grain of the same call
\* had the claimed old grain within reach and took another id
C23_Witness ==
  /\ MatchingDone
  /\ \E i \in DOMAIN last.detected : \E g, h \in Unclaimed(i) :
       /\ ReachDistances(i, g) # {} /\ ReachDistances(i, h) # {}
       /\ SetMin(ReachDistances(i, g)) < SetMin(ReachDistances(i, h))
       /\ last.assigned[i] = g
  /\ \E i \in DOMAIN last.detected : \E j \in 1..(i - 1) :
       /\ ReachDistances(i, last.assigned[j]) # {}
       /\ last.assigned[i] # last.assigned[j]

(***************************************************************************)
(* Properties of the order of the transfers of remap().                    *)
(***************************************************************************)

\* the positions in the log of remap() of the entries of the kind what
LogPositions(what) == {i \in DOMAIN remapped.log : remapped.log[i].what = what}

\* C24: in a call of remap() every transfer to a temporary block, with the
\* zeroing of its source, comes before every transfer from a temporary
\* block, and every direct transfer comes before every transfer from a
\* temporary block.
C24_TempRefilledLast ==
  remapped.done =>
    /\ \A i \in LogPositions("to_temp") : \A j \in LogPositions("from_temp") : i < j
    /\ \A i \in LogPositions("direct") : \A j \in LogPositions("from_temp") : i < j
    /\ \A i \in LogPositions("to_temp") : \A j \in LogPositions("direct") : i < j

\* a call of remap() that drained a grain to a temporary block, moved other
\* grains directly and refilled from the temporary block, with values in
\* the container that it moved
C24_Witness ==
  /\ remapped.done
  /\ LogPositions("to_temp") # {}
  /\ LogPositions("direct") # {}
  /\ Cardinality(LogPositions("from_temp")) = Cardinality(LogPositions("to_temp"))
  /\ solution # remapped.before

\* the remappings of the call of remap(), direct or through a temporary
\* block
AllRemappings ==
  Range(remapped.remappings) \cup Range(remapped.remappings_via_temp)

\* the remappings of the call that lie on a cycle: from the order parameter
\* a remapping fills, a chain of remappings of overlapping grains, each
\* leaving the order parameter the one before fills, leads back to the
\* order parameter it leaves
OnCycle ==
  LET E == {<<p[1].from, p[1].to>> :
              p \in {q \in AllRemappings \X AllRemappings :
                        Collides(q[1], q[2], grains) \/ Collides(q[2], q[1], grains)}}
  IN {r \in AllRemappings : <<r.to, r.from>> \in TransitiveClosure(E)}

\* the position in the log of remap() of the direct transfer of the grain
DirectPosition(grain_id) ==
  CHOOSE i \in LogPositions("direct") : remapped.log[i].grain_id = grain_id

\* the pairs <<ri, rj>> of remappings of the call that are on no cycle, of
\* grains that overlap, with ri.to = rj.from
ChainedPairs ==
  {p \in Range(remapped.remappings) \X Range(remapped.remappings) :
     /\ Collides(p[1], p[2], grains)
     /\ p[1] \notin OnCycle /\ p[2] \notin OnCycle}

C26_FlagIffRemappingNeeded ==
  Returned =>
    /\ last.grains_reassigned <=> MovedGrains # {}
    /\ last.grains_reassigned <=>
         BuildRemappings(SortedSeq(DOMAIN grains), grains) # <<>>

\* the same, for the calls that end with at least one grain
C26_FlagIffRemappingNeededWithGrains ==
  (Returned /\ DOMAIN grains # {}) =>
    /\ last.grains_reassigned <=> MovedGrains # {}
    /\ last.grains_reassigned <=>
         BuildRemappings(SortedSeq(DOMAIN grains), grains) # <<>>

(***************************************************************************)
(* C27: perform_distributed_stitching returns a valid id for every local   *)
(* particle of every rank (no entry of a returned vector is left at        *)
(* numbers::invalid_unsigned_int), no particle is sent the id of a clique  *)
(* twice, and the ids in the returned vectors are exactly 0..N-1, N being  *)
(* the number of cliques (lines 720-745, 747-788).                         *)
(***************************************************************************)
\* the notifications on their way to the particle p
NotificationsTo(p) ==
  {md \in UNION {{<<m, d>> : d \in m.data} :
                   m \in {x \in in_flight : x.kind = "id"}} :
     md[1].to = p[1] /\ md[2].id = p[2]}

\* the cliques: the groups of particles joined by chains of touching ones
CliquesOfParticles == {Reach({p}) : p \in Particles}

C27_ValidDenseIdsNotifiedOnce ==
  /\ \A p \in Particles :
       /\ Cardinality(NotificationsTo(p)) <= 1
       /\ NotificationsTo(p) # {} => ResultOf(p) = InvalidId
  /\ AllDone =>
       /\ \A p \in Particles : ResultOf(p) # InvalidId
       /\ {ResultOf(p) : p \in Particles} =
            0..(Cardinality(CliquesOfParticles) - 1)

\* every rank has returned; there are three cliques, one of them with
\* particles of two ranks, and a rank that numbered two cliques
C27_Witness ==
  /\ AllDone
  /\ Cardinality(CliquesOfParticles) = 3
  /\ \E c \in CliquesOfParticles : \E p, q \in c : p[1] # q[1]
  /\ \E r \in Ranks : Len(input_valid[r]) = 2
  /\ \A p \in Particles : ResultOf(p) \in 0..2


(***************************************************************************)
(* A run of the tracker on one container: initial_setup() on the field,    *)
(* remap() of the field, track() on the remapped field.  One process owns  *)
(* the mesh, a line of NumCells cells of width CellWidth; a cell is named   *)
(* by the coordinate of its center and carries one value per block.        *)
(***************************************************************************)
LineCells == {CellWidth * i : i \in 0..(NumCells - 1)}

\* lines 807-820 on the line: run_flooding labels a cell whose value is not
\* zero and goes on to its two neighbors, so a particle is a maximal run
\* of such cells; ab holds its first and its last cell
FieldRuns(f, op) ==
  {ab \in Cells \X Cells :
     /\ ab[1] <= ab[2]
     /\ \A x \in Cells : (ab[1] <= x /\ x <= ab[2]) => f[op][x] # 0
     /\ (ab[1] - CellWidth) \in Cells => f[op][ab[1] - CellWidth] = 0
     /\ (ab[2] + CellWidth) \in Cells => f[op][ab[2] + CellWidth] = 0}

\* lines 911-984: the center is the mean of the cell centers weighted by the
\* measure (all cells have the same), the radius the largest distance of a
\* cell center from it plus half the diameter of the cell
FieldGrain(op, ab) ==
  [op |-> op,
   segments |-> <<[c |-> (ab[1] + ab[2]) \div 2,
                   r |-> (ab[2] - ab[1]) \div 2 + CellWidth \div 2]>>]

\* the particles of one order parameter in the order the flood meets them
FieldGrainsOf(f, op) ==
  LET first == SortedSeq({ab[1] : ab \in FieldRuns(f, op)})
  IN [i \in DOMAIN first |->
        FieldGrain(op, CHOOSE ab \in FieldRuns(f, op) : ab[1] = first[i])]

\* lines 797-1117: the order parameters one after the other
RECURSIVE FieldDetectionFrom(_, _)
FieldDetectionFrom(f, op) ==
  IF op \notin Channels THEN <<>>
  ELSE FieldGrainsOf(f, op) \o FieldDetectionFrom(f, op + 1)

FieldDetection(f) == FieldDetectionFrom(f, 0)

\* initial_setup(solution)
DoSetupField ==
  /\ CanSetup
  /\ \E det \in {FieldDetection(solution)} :
       \E col \in ColorChoices(DetectedMap(det), greedy_init) :
         \E ub \in UBChoices(DetectedMap(det)) :
           InitialSetup(det, col, ub)

\* remap(solution) after a call that returned
DoRemapField ==
  /\ CanRemap
  /\ \E built \in {BuildRemappings(SortedSeq(DOMAIN grains), grains)} :
       \E graph \in {BuildGraph(built, grains)} :
         \E V \in (IF graph = {} THEN {{}} ELSE resolve_cycles(graph)) :
           \E via \in {SelectSeq(built, LAMBDA r : r \in V)} :
             \E rest \in {SelectSeq(built, LAMBDA r : r \notin V)} :
               \E remappings \in (IF graph = {} THEN {rest}
                                  ELSE rearrange(rest, grains)) :
                 Remap(solution, via, remappings)

\* track(solution) on the remapped field
DoTrackField ==
  /\ Returned
  /\ remapped.done
  /\ steps_left > 0
  /\ steps_left' = steps_left - 1
  /\ \E det \in {FieldDetection(solution)} :
       \E numberer \in Numberers(grains) :
         \E st \in {MatchedGrains(det, numberer)} :
           /\ st.grain_numberer <= MaxGrainId + 1
           /\ \E col \in (IF st.outcome = "ok"
                            THEN ColorChoices(st.grains, FALSE) ELSE {<<>>}) :
                \E ub \in (IF st.outcome = "ok"
                             THEN UBChoices(st.grains) ELSE {"none"}) :
                  \E res \in {IF st.outcome = "ok"
                                THEN Reassign(st.grains, FALSE, col, ub,
                                              max_order_parameters_num)
                                ELSE NoReassign} :
                    TrackFinish(st, res, det)

NextRoundTrip == DoSetupField \/ DoRemapField \/ DoTrackField

InitRoundTrip ==
  /\ NoStitching
  /\ triangulation = [cells |-> LineCells]
  /\ particle_ids = <<>>
  /\ detect_grains = <<>>
  /\ grains = EmptyMap
  /\ old_grains = EmptyMap
  /\ active_order_parameters = {}
  /\ last = NoCall
  /\ pre = NoPre
  /\ retired = {}
  /\ remapped = NoRemap
  /\ greedy_init \in BOOLEAN
  /\ allow_new_grains \in BOOLEAN
  /\ max_order_parameters_num = NumBlocks
  /\ n_order_params = NumBlocks
  /\ steps_left = 2
  /\ solution \in [0..(NumBlocks - 1) -> [LineCells -> 0..MaxValue]]

SpecRoundTrip == InitRoundTrip /\ [][NextRoundTrip]_vars

(***************************************************************************)
(* C32: when initial_setup() or track() has changed the order parameter of *)
(* a grain and the caller has applied remap() to the field, the next       *)
(* track() on the field (not changed otherwise) returns without an         *)
(* inconsistency of order parameters, finds every grain under its id with  *)
(* its segments on the order parameter of its order_parameter_id, and      *)
(* reassigns nothing.                                                      *)
(***************************************************************************)
TrackedAfterRemap ==
  /\ last.kind = "track"
  /\ remapped.done
  /\ \E k \in DOMAIN old_grains :
       old_grains[k].order_parameter_id # old_grains[k].old_order_parameter_id

C32_RemappedFieldTracksIdle ==
  TrackedAfterRemap =>
    /\ last.outcome = "ok"
    /\ DOMAIN grains = DOMAIN old_grains
    /\ \A k \in DOMAIN grains :
         /\ grains[k].segments = old_grains[k].segments
         /\ grains[k].order_parameter_id = old_grains[k].order_parameter_id
         /\ grains[k].old_order_parameter_id = old_grains[k].order_parameter_id
    /\ ~last.grains_reassigned

(***************************************************************************)
(* C31: after a track() that returned, every matched grain has as          *)
(* old_order_parameter_id the order_parameter_id of the old grain it was   *)
(* matched to, and the reassignment of the call (coloring and compaction)  *)
(* changed the order_parameter_id only: every grain keeps the id the       *)
(* matching loop gave it and the order parameter it was detected on as its *)
(* old_order_parameter_id (tracker.h 139-163, grain.h 50-54, 158-162).     *)
(***************************************************************************)
C31_OldChannelKeptFromMatch ==
  TrackReturned =>
    /\ \A k \in last.matched :
         /\ k \in DOMAIN grains
         /\ grains[k].old_order_parameter_id = old_grains[k].order_parameter_id
    /\ \A i \in DOMAIN last.detected :
         /\ last.assigned[i] \in DOMAIN grains
         /\ grains[last.assigned[i]].grain_id = last.assigned[i]
         /\ grains[last.assigned[i]].old_order_parameter_id = last.detected[i].op

\* a track() that returned with a matched grain the coloring moved and a
\* matched grain it left alone
C31_Witness ==
  /\ TrackReturned
  /\ last.overlap_detected
  /\ \E k, j \in last.matched :
       /\ grains[k].order_parameter_id # grains[k].old_order_parameter_id
       /\ grains[k].old_order_parameter_id = old_grains[k].order_parameter_id
       /\ grains[j].order_parameter_id = grains[j].old_order_parameter_id


(***************************************************************************)
(* C33: after reassign_grains the distance_to_nearest_neighbor of a grain  *)
(* is the smallest distance_lower_bound to the other grains that have the  *)
(* same order_parameter_id or the same old_order_parameter_id (the value   *)
(* it was constructed with when there is none), and transfer_buffer() is   *)
(* half of it, or 0 when it is negative (tracker.h 1258-1278, grain.h      *)
(* 220-233, 293-297).                                                      *)
(***************************************************************************)
\* the other grains on the current or on the previous order parameter of k
SharingChannel(k) ==
  {j \in DOMAIN grains \ {k} :
     \/ grains[j].order_parameter_id = grains[k].order_parameter_id
     \/ grains[j].old_order_parameter_id = grains[k].old_order_parameter_id}

NearestSharing(k) ==
  IF SharingChannel(k) = {} THEN MaxDouble
  ELSE SetMin({distance_lower_bound(grains[k], grains[j]) :
                 j \in SharingChannel(k)})

C33_NearestNeighborOfSharedChannels ==
  Returned =>
    \A k \in DOMAIN grains :
      /\ grains[k].distance_to_nearest_neighbor = NearestSharing(k)
      /\ transfer_buffer2(grains[k]) =
           (IF NearestSharing(k) < 0 THEN 0 ELSE NearestSharing(k))

\* a grain whose only neighbor shares its previous order parameter and not
\* its current one, with a positive buffer
C33_Witness ==
  /\ Returned
  /\ \E k \in DOMAIN grains :
       /\ SharingChannel(k) # {}
       /\ \A j \in SharingChannel(k) :
            grains[j].order_parameter_id # grains[k].order_parameter_id
       /\ grains[k].distance_to_nearest_neighbor = NearestSharing(k)
       /\ transfer_buffer2(grains[k]) > 0
       /\ transfer_buffer2(grains[k]) < MaxDouble


(***************************************************************************)
(* C34: two different grains that have the same order_parameter_id or the  *)
(* same old_order_parameter_id and whose spheres do not intersect have     *)
(* disjoint zones in remap(): no cell is within radius + transfer_buffer   *)
(* of a segment center of both (grain.h 290-297, tracker.h 232-265,        *)
(* 1258-1278).                                                             *)
(***************************************************************************)
C34_ZonesOfNeighborsDisjoint ==
  Returned =>
    \A k \in DOMAIN grains : \A j \in SharingChannel(k) :
      distance_lower_bound(grains[k], grains[j]) >= 0 =>
        Zone(grains[k]) \cap Zone(grains[j]) = {}

\* two grains brought to one order parameter from different ones, with a
\* gap between their spheres, whose zones reach beyond the spheres and
\* cover all cells between them
C34_Witness ==
  /\ Returned
  /\ \E k \in DOMAIN grains : \E j \in SharingChannel(k) :
       /\ grains[k].old_order_parameter_id # grains[j].old_order_parameter_id
       /\ distance_lower_bound(grains[k], grains[j]) > 0
       /\ transfer_buffer2(grains[k]) > 0
       /\ Zone(grains[k]) # {} /\ Zone(grains[j]) # {}
       /\ Zone(grains[k]) \cap Zone(grains[j]) = {}
       /\ Zone(grains[k]) \cup Zone(grains[j]) = Cells


(***************************************************************************)
(* C35: remap() sets the blocks of all disappeared grains to zero before   *)
(* it makes the first transfer of a remapping, so that values a transfer   *)
(* writes into the block a disappeared grain has left (as the compaction   *)
(* of the order parameters asks for) are not set to zero with that grain   *)
(* (tracker.h 267-297, 460-500).                                           *)
(***************************************************************************)
\* the positions of the transfers in the log of remap()
TransferPositions == DOMAIN remapped.log \ LogPositions("disappeared")

\* a later entry of the log reads or writes the block op at the cell x
TouchedAfter(j, op, x) ==
  \E i \in TransferPositions :
    /\ i > j
    /\ op \in {remapped.log[i].from, remapped.log[i].to}
    /\ x \in Zone(grains[remapped.log[i].grain_id])

C35_DisappearedZeroedBeforeTransfers ==
  remapped.done =>
    /\ \A i \in LogPositions("disappeared") : \A j \in TransferPositions : i < j
    /\ \A j \in LogPositions("direct") :
         (\A i \in TransferPositions : i >= j) =>
           \A x \in Zone(grains[remapped.log[j].grain_id]) :
             ~TouchedAfter(j, remapped.log[j].to, x) =>
               solution[remapped.log[j].to][x] =
                 remapped.cleaned[remapped.log[j].from][x]

\* a grain disappeared and a grain was moved to the order parameter it had
\* left; a nonzero value arrived in the zone of the disappeared grain
C35_Witness ==
  /\ remapped.done
  /\ \E i \in LogPositions("disappeared") : \E j \in LogPositions("direct") :
       /\ i < j
       /\ remapped.log[j].to = remapped.log[i].from
       /\ \E x \in Zone(grains[remapped.log[j].grain_id]) :
            /\ x \in Zone(old_grains[remapped.log[i].grain_id])
            /\ solution[remapped.log[j].to][x] # 0


(***************************************************************************)
(* C36: remap() changes nothing in the tracker: grains and old_grains,     *)
(* with the order_parameter_id and old_order_parameter_id of every grain,  *)
(* and the active order parameters are after the call what they were       *)
(* before it; only the containers passed to it change (tracker.h 213-223,  *)
(* 299-313).                                                               *)
(***************************************************************************)
C36_RemapKeepsTracker ==
  [][(~remapped.done /\ remapped'.done) =>
       /\ grains' = grains
       /\ old_grains' = old_grains
       /\ active_order_parameters' = active_order_parameters
       /\ last' = last
       /\ Config' = Config]_vars

\* remap() has changed the container, and the grains it moved still have
\* an old_order_parameter_id that differs from their order_parameter_id
C36_Witness ==
  /\ remapped.done
  /\ solution # remapped.before
  /\ remapped.remappings # <<>>
  /\ \A i \in DOMAIN remapped.remappings :
       /\ grains[remapped.remappings[i].grain_id].old_order_parameter_id
            = remapped.remappings[i].from
       /\ grains[remapped.remappings[i].grain_id].order_parameter_id
            = remapped.remappings[i].to
  /\ old_grains # EmptyMap


(***************************************************************************)
(* The same line of cells divided among the ranks.  The container is one   *)
(* distributed vector: solution holds the value of every cell, the entry   *)
(* of a cell being kept by its owner.  Every rank floods the order         *)
(* parameters, initial_setup() returns the same grains on every rank, and  *)
(* every rank runs remap().                                                *)
(***************************************************************************)
\* lines 584-632 on the line: the flood of rank r labels a cell that r owns
\* and whose value is not zero, and stops at a cell of another rank
FieldRunsOwned(r, f, op) ==
  {ab \in Cells \X Cells :
     /\ ab[1] <= ab[2]
     /\ \A x \in Cells :
          (ab[1] <= x /\ x <= ab[2]) => (f[op][x] # 0 /\ is_locally_owned(r, x))
     /\ (ab[1] - CellWidth) \in Cells =>
          (f[op][ab[1] - CellWidth] = 0 \/ ~is_locally_owned(r, ab[1] - CellWidth))
     /\ (ab[2] + CellWidth) \in Cells =>
          (f[op][ab[2] + CellWidth] = 0 \/ ~is_locally_owned(r, ab[2] + CellWidth))}

\* lines 803-820: particle_ids after the flooding loop of rank r for the
\* order parameter op, the particles numbered from 0 as the loop meets them
FloodedIds(r, f, op) ==
  LET runs == FieldRunsOwned(r, f, op)
  IN [x \in Cells |->
        IF \E ab \in runs : ab[1] <= x /\ x <= ab[2]
        THEN Cardinality({ab \in runs : ab[2] < x})
        ELSE invalid_particle_id]

\* the flooding of all order parameters on rank r
FloodLine(r) ==
  /\ pc[r] = "flood"
  /\ particle_ids' =
       [particle_ids EXCEPT ![r] = [op \in Channels |-> FloodedIds(r, solution, op)]]
  /\ pc' = [pc EXCEPT ![r] = "flooded"]
  /\ UNCHANGED <<triangulation, detect_grains, tracker, input, connectivity,
                 in_flight, finished, entered, votes, input_sent, left_in,
                 input_valid, result>>

\* alter_dof_values_for_grain without the test of the owner
alter_dof_values_for_grainAnyOwner(r, grain) == Zone(grain)

\* lines 232-265: the cells for which rank r calls the callback
alter_dof_values_for_grain(r, grain) ==
  {x \in Zone(grain) : is_locally_owned(r, x)}

\* the cells rank r calls a callback for in one remap()
AlteredBy(r) ==
  UNION ({alter_dof_values_for_grain(r, old_grains[k]) :
            k \in disappered_grains(old_grains, grains)}
         \cup {alter_dof_values_for_grain(r, grains[k]) :
                 k \in {j \in DOMAIN grains :
                          grains[j].order_parameter_id
                            # grains[j].old_order_parameter_id}})

\* remap() on rank r: every callback reads and writes the values of one cell
\* only, so the cells of r end as in a run over all cells and the others
\* keep their values
RemapOwned(r, via, remappings) ==
  \E st \in {RemapRun(solution, grains, old_grains, via, remappings)} :
    /\ Returned
    /\ BlocksInRange
    /\ pc[r] = "flooded"
    /\ solution' =
         [op \in Channels |->
            [x \in Cells |-> IF x \in AlteredBy(r) THEN st.solution[op][x]
                                                   ELSE solution[op][x]]]
    /\ pc' = [pc EXCEPT ![r] = "remapped"]
    /\ UNCHANGED <<grains, old_grains, active_order_parameters, Config,
                   steps_left, last, pre, retired, remapped, detection,
                   input, connectivity, in_flight, finished, entered, votes,
                   input_sent, left_in, input_valid, result>>

DoFloodLine == \E r \in Ranks : FloodLine(r)

\* initial_setup(solution) once every rank has flooded
DoSetupOwned ==
  /\ \A r \in Ranks : pc[r] = "flooded"
  /\ DoSetupField

DoRemapOwned ==
  /\ Returned
  /\ \E r \in Ranks :
       \E built \in {BuildRemappings(SortedSeq(DOMAIN grains), grains)} :
         \E graph \in {BuildGraph(built, grains)} :
           \E V \in (IF graph = {} THEN {{}} ELSE resolve_cycles(graph)) :
             \E via \in {SelectSeq(built, LAMBDA q : q \in V)} :
               \E rest \in {SelectSeq(built, LAMBDA q : q \notin V)} :
                 \E remappings \in (IF graph = {} THEN {rest}
                                    ELSE rearrange(rest, grains)) :
                   RemapOwned(r, via, remappings)

NextOwned == DoFloodLine \/ DoSetupOwned \/ DoRemapOwned

\* every rank owns a run of consecutive cells of the line, at least one
LinePartitionings ==
  {o \in [LineCells -> Ranks] :
     /\ \A x, y \in LineCells : x < y => o[x] <= o[y]
     /\ \A r \in Ranks : \E x \in LineCells : o[x] = r}

InitOwned ==
  /\ \E o \in LinePartitionings :
       triangulation = [cells |-> LineCells, subdomain_id |-> o]
  /\ particle_ids =
       [r \in Ranks |->
          [op \in 0..(NumBlocks - 1) |-> [x \in LineCells |-> invalid_particle_id]]]
  /\ detect_grains = <<>>
  /\ grains = EmptyMap
  /\ old_grains = EmptyMap
  /\ active_order_parameters = {}
  /\ last = NoCall
  /\ pre = NoPre
  /\ retired = {}
  /\ remapped = NoRemap
  /\ greedy_init \in BOOLEAN
  /\ allow_new_grains = FALSE
  /\ max_order_parameters_num = NumBlocks
  /\ n_order_params = NumBlocks
  /\ steps_left = 1
  /\ solution \in {f \in [0..(NumBlocks - 1) -> [LineCells -> 0..MaxValue]] :
                     Cardinality({p \in (0..(NumBlocks - 1)) \X LineCells :
                                    f[p[1]][p[2]] # 0}) <= MaxNonzero + 1}
  /\ input = <<>>
  /\ connectivity = <<>>
  /\ in_flight = {}
  /\ pc = [r \in Ranks |-> "flood"]
  /\ finished = <<>>
  /\ entered = <<>>
  /\ votes = <<>>
  /\ input_sent = <<>>
  /\ left_in = <<>>
  /\ input_valid = <<>>
  /\ result = <<>>

SpecOwned == InitOwned /\ [][NextOwned]_vars

(***************************************************************************)
(* C37: the flood writes the entries of particle_ids, and remap() the      *)
(* values of the containers, only at cells the executing process owns: no  *)
(* ghost cell gets a particle id from the flood, and remap() neither       *)
(* copies nor zeroes the values of a ghost cell (tracker.h 232-265,        *)
(* 584-632; distributed_stitching.h 39-100).                               *)
(***************************************************************************)
\* in this step every entry of particle_ids that changes is the entry of a
\* rank for a cell it owns, and every value of the container that changes
\* is the value of a cell of the rank that ran remap()
WritesOwnedOnly ==
  /\ \A r \in Ranks : \A op \in Channels : \A x \in Cells :
       particle_ids'[r][op][x] # particle_ids[r][op][x] =>
         (pc[r] = "flood" /\ pc'[r] = "flooded" /\ is_locally_owned(r, x))
  /\ \A op \in Channels : \A x \in Cells :
       solution'[op][x] # solution[op][x] =>
         \E r \in Ranks :
           pc[r] = "flooded" /\ pc'[r] = "remapped" /\ is_locally_owned(r, x)

lowest == 0 - MaxDouble

\* distributed_stitching.h 39-100: run_flooding with the running maximum of
\* the values of the cells it marks
RECURSIVE run_flooding_max(_, _, _, _, _)
RECURSIVE FloodEachMax(_, _, _, _)
run_flooding_max(cell, ids, max_value, owned, id) ==
  IF has_children(cell)
  THEN FloodEachMax(child_iterators(cell),
                    [ids |-> ids, max_value |-> max_value, counter |-> 0],
                    owned, id)
  ELSE IF cell \notin owned
    THEN [ids |-> ids, max_value |-> max_value, counter |-> 0]
  ELSE IF ids[cell] # invalid_particle_id
    THEN [ids |-> ids, max_value |-> max_value, counter |-> 0]
  ELSE IF ~(solution[cell] > threshold_lower)
    THEN [ids |-> ids, max_value |-> max_value, counter |-> 0]
  ELSE LET faces == InnerFaces(cell, 0)
       IN FloodEachMax([i \in DOMAIN faces |-> neighbor(cell, faces[i])],
                       [ids |-> [ids EXCEPT ![cell] = id],
                        max_value |-> Max(max_value, solution[cell]),
                        counter |-> 1],
                       owned, id)

\* the loops over the children (lines 53-60) and over the faces (lines
\* 88-97)
FloodEachMax(cells, acc, owned, id) ==
  IF cells = <<>> THEN acc
  ELSE LET res == run_flooding_max(Head(cells), acc.ids, acc.max_value, owned, id)
       IN FloodEachMax(Tail(cells),
                       [ids |-> res.ids, max_value |-> res.max_value,
                        counter |-> acc.counter + res.counter],
                       owned, id)

\* distributed_stitching.h 454-483: the loop over the active cells pushes
\* the running maximum for every particle it finds and resets it
RECURSIVE FloodingLoopMax(_, _, _)
FloodingLoopMax(cells, acc, owned) ==
  IF cells = <<>> THEN acc
  ELSE LET res == run_flooding_max(Head(cells), acc.ids, acc.op_max_value,
                                   owned, acc.counter)
       IN FloodingLoopMax(
            Tail(cells),
            IF res.counter > 0
            THEN [ids |-> res.ids, counter |-> acc.counter + 1,
                  local_particle_max_values |->
                    Append(acc.local_particle_max_values, res.max_value),
                  op_max_value |-> lowest]
            ELSE [ids |-> res.ids, counter |-> acc.counter,
                  local_particle_max_values |-> acc.local_particle_max_values,
                  op_max_value |-> res.max_value],
            owned)

\* step 1 of detect_local_particle_groups on rank r
FloodMax(r) ==
  /\ pc[r] = "flood"
  /\ \E res \in {FloodingLoopMax(
                   active_cell_iterators,
                   [ids |-> [cell \in ActiveCells |-> invalid_particle_id],
                    counter |-> 0, local_particle_max_values |-> <<>>,
                    op_max_value |-> lowest],
                   LocallyOwned(r))} :
       /\ particle_ids' = [particle_ids EXCEPT ![r] = res.ids]
       /\ detect_grains' =
            [detect_grains EXCEPT
               ![r].counter = res.counter,
               ![r].local_particle_max_values = res.local_particle_max_values]
  /\ pc' = [pc EXCEPT ![r] = "exscan"]
  /\ UNCHANGED <<triangulation, tracker, input, connectivity, in_flight,
                 finished, entered, votes, input_sent, left_in, input_valid,
                 result>>

\* distributed_stitching.h 229-246: the loop over the locally owned cells
\* writes the local max value of the particle of the cell to the entry of
\* its stitched particle
RECURSIVE MaxValuesLoop(_, _, _)
MaxValuesLoop(cells, particle_max_values, r) ==
  IF cells = <<>> THEN particle_max_values
  ELSE LET cell == Head(cells)
       IN IF is_locally_owned(r, cell)
               /\ particle_ids[r][cell] # invalid_particle_id
          THEN MaxValuesLoop(
                 Tail(cells),
                 [particle_max_values EXCEPT
                    ![unique_id(r, cell)] =
                      detect_grains[r].local_particle_max_values[
                        particle_ids[r][cell] - detect_grains[r].offset + 1]],
                 r)
          ELSE MaxValuesLoop(Tail(cells), particle_max_values, r)

\* distributed_stitching.h 224-246: the vector of rank r before the
\* reduction, from a vector of n_particles zeros
LocalMaxValues(r) ==
  MaxValuesLoop(active_cell_iterators, [i \in 0..(n_particles - 1) |-> 0], r)

\* the ranks that have returned from the stitching
Stitched == {s \in Ranks : pc[s] \in {"done", "max_values"}}

\* distributed_stitching.h 212-258: MPI_Allreduce with MPI_MAX returns on
\* rank r when every rank has entered it, with the largest entry over the
\* ranks at every index
ParticlesMaxValues(r) ==
  /\ pc[r] = "done"
  /\ Stitched = Ranks
  /\ detect_grains' =
       [detect_grains EXCEPT
          ![r].particle_max_values =
            [i \in 0..(n_particles - 1) |->
               SetMax({LocalMaxValues(s)[i] : s \in Ranks})]]
  /\ pc' = [pc EXCEPT ![r] = "max_values"]
  /\ UNCHANGED <<triangulation, particle_ids, tracker, input, connectivity,
                 in_flight, finished, entered, votes, input_sent, left_in,
                 input_valid, result>>

DoFloodMax == \E r \in Ranks : FloodMax(r)

DoParticlesMaxValues == \E r \in Ranks : ParticlesMaxValues(r)

\* the values of the cells that hold a particle exceed threshold_lower
ParticleValues == {0} \cup ((threshold_lower + 1)..(threshold_lower + MaxFieldValue))

\* a mesh whose first coarse cell is refined, a field of one block, every
\* rank at the start of detect_local_particle_groups
InitMaxValues ==
  /\ grains = EmptyMap
  /\ old_grains = EmptyMap
  /\ active_order_parameters = {}
  /\ last = NoCall
  /\ pre = NoPre
  /\ retired = {}
  /\ remapped = NoRemap
  /\ greedy_init = FALSE
  /\ allow_new_grains = FALSE
  /\ max_order_parameters_num = 1
  /\ n_order_params = 1
  /\ steps_left = 0
  /\ \E f \in Partitionings(Len(ActiveFrom({0}, 0))) :
       triangulation =
         [refined |-> {0},
          subdomain_id |->
            [cell \in {ActiveFrom({0}, 0)[i] : i \in DOMAIN ActiveFrom({0}, 0)} |->
               f[CHOOSE i \in DOMAIN ActiveFrom({0}, 0) :
                   ActiveFrom({0}, 0)[i] = cell]]]
  /\ solution \in [ActiveCells -> ParticleValues]
  /\ particle_ids = [r \in Ranks |-> [cell \in ActiveCells |-> invalid_particle_id]]
  /\ detect_grains =
       [r \in Ranks |->
          [counter |-> 0, offset |-> 0, local_particle_max_values |-> <<>>,
           particle_max_values |-> <<>>]]
  /\ input = [r \in Ranks |-> <<>>]
  /\ connectivity = input
  /\ input_sent = input
  /\ in_flight = {}
  /\ pc = [r \in Ranks |-> "flood"]
  /\ finished = [r \in Ranks |-> FALSE]
  /\ entered = [r \in Ranks |-> 0]
  /\ votes = [r \in Ranks |-> FALSE]
  /\ left_in = [r \in Ranks |-> 0]
  /\ input_valid = [r \in Ranks |-> <<>>]
  /\ result = [r \in Ranks |-> <<>>]

NextMaxValues ==
  \/ DoFloodMax
  \/ DoShiftIds
  \/ DoUpdateGhosts
  \/ NextStitching
  \/ DoParticlesMaxValues

SpecMaxValues == InitMaxValues /\ [][NextMaxValues]_vars

\* the local max values of the fragments of all ranks that were stitched
\* into the particle i
FragmentMaxValues(i) ==
  UNION {{detect_grains[s].local_particle_max_values[k] :
            k \in {j \in DOMAIN result[s] : result[s][j] = i}} : s \in Ranks}

\* C38: on every rank that has returned from compute_particles_max_values,
\* the max value of every stitched particle is the largest of the local max
\* values of all the fragments stitched into it, also when several
\* fragments of one rank belong to the particle
C38_MaxValueOfAllFragments ==
  \A r \in Ranks :
    pc[r] = "max_values" =>
      \A i \in 0..(n_particles - 1) :
        FragmentMaxValues(i) # {} =>
          detect_grains[r].particle_max_values[i] = SetMax(FragmentMaxValues(i))

====
